---- MODULE Spec2Model ----
(***************************************************************************)
(* Model of the reqline statement parser (services/reqline/parser.js).     *)
(*                                                                         *)
(* A statement is a sequence of symbols.  A symbol is a space " ", a pipe  *)
(* "|", or an atom: a run of characters containing neither a space nor a   *)
(* pipe (a keyword, a verb, a URL, a JSON punctuation mark, a JSON string  *)
(* literal, a number).  A word is a non-empty sequence of atoms, so the    *)
(* word HTTP is <<"HTTP">> and the word {"a":1} is                         *)
(* <<"{", "\"a\"", ":", "1", "}">>.                                        *)
(***************************************************************************)
EXTENDS Integers, Sequences, FiniteSets, TLC

VARIABLES reqline, pc, parts, i, parsed, error,
          cookieJar, calls, lastEvent, proxyTarget, proxyPc, originalUrl, proxyOut,
          servicePc, serviceOut

\* A JavaScript object that is compared with null or undefined is the pair
\* <<"object", f>> of the tag "object" and the function or record f of its
\* properties.

\* the state of a call of parse
parserVars == <<reqline, pc, parts, i, parsed, error>>

\* the state of a call of proxyReqline
proxyVars == <<proxyTarget, proxyPc, originalUrl, proxyOut>>

\* the state of a call of parseReqline
parseReqlineVars == <<servicePc, serviceOut>>

\* the state of the executor (its cookie jar, the calls of execute and the
\* last start or completion of a call) and of a call of proxyReqline or of
\* parseReqline
serviceVars == <<cookieJar, calls, lastEvent, proxyVars, parseReqlineVars>>

vars == <<parserVars, serviceVars>>

(***************************************************************************)
(* Bounds of the input space.                                              *)
(***************************************************************************)
MaxSegs == 3
MaxSpaced == 2
MaxPad == 2
MaxTail == 3
MaxValues == 2

(***************************************************************************)
(* JavaScript values.                                                      *)
(***************************************************************************)
\* null, for the fields method and url, which otherwise hold symbol sequences
Null == <<"<null>">>

\* undefined, for an absent property
Undefined == <<"<undefined>">>

\* a thrown ParserError: its message and the text interpolated into it
ParserError(message, text) == [message |-> message, text |-> text]

NoError == ParserError("", <<>>)

\* JSON values are tagged: <<"object", f>>, <<"array", s>>, <<"string", t>>,
\* <<"number", t>>, <<"boolean", t>>, <<"null", "null">>
EmptyObject == << >>

(***************************************************************************)
(* String.prototype.trim, toUpperCase, Array.prototype.join(' ')           *)
(***************************************************************************)
RECURSIVE TrimLeft(_)
TrimLeft(s) ==
  IF s = <<>> THEN <<>>
  ELSE IF Head(s) = " " THEN TrimLeft(Tail(s)) ELSE s

RECURSIVE TrimRight(_)
TrimRight(s) ==
  IF s = <<>> THEN <<>>
  ELSE IF s[Len(s)] = " " THEN TrimRight(SubSeq(s, 1, Len(s) - 1)) ELSE s

Trim(s) == TrimRight(TrimLeft(s))

\* toUpperCase of an atom: the lower-case words of the alphabet have their
\* upper-case counterpart in it; any other atom with a lower-case letter (a
\* URL, a JSON string literal) becomes an atom outside the alphabet
UpperTable ==
  [http |-> "HTTP", url |-> "URL", get |-> "GET", put |-> "PUT",
   null |-> "NULL", true |-> "TRUE", false |-> "FALSE", bad |-> "BAD"]

LowerCaseAtoms ==
  {"https://example.com/x", "https://example.com", "not-a-valid-url",
   "\"a\"", "\"b\"", "\"s\"", "\"type\"", "\"file\"", "\"path\"", "\"/p\"",
   "\"filename\"", "\"n.txt\"", "\"contentType\"", "\"text/plain\""}

ToUpperAtom(a) ==
  IF a \in DOMAIN UpperTable THEN UpperTable[a]
  ELSE IF a \in LowerCaseAtoms THEN "toUpperCase(" \o a \o ")"
       ELSE a

toUpperCase(s) == [k \in 1..Len(s) |-> ToUpperAtom(s[k])]

RECURSIVE join(_)
join(words) ==
  IF words = <<>> THEN <<>>
  ELSE IF Len(words) = 1 THEN words[1]
  ELSE words[1] \o <<" ">> \o join(Tail(words))

(***************************************************************************)
(* ReqlineParser.splitByDelimiter                                          *)
(* k is the 1-based position (the code's i + 1).                           *)
(***************************************************************************)
\* PipeError with the two checks in the other order
PipeErrorAfterFirst(r, k) ==
  IF k < Len(r) /\ r[k + 1] # " "
  THEN ParserError("Missing space after pipe delimiter", <<>>)
  ELSE IF k > 1 /\ r[k - 1] # " "
       THEN ParserError("Missing space before pipe delimiter", <<>>)
       ELSE NoError

\* the spacing check at the pipe at position k
PipeError(r, k) ==
  IF k > 1 /\ r[k - 1] # " "
  THEN ParserError("Missing space before pipe delimiter", <<>>)
  ELSE IF k < Len(r) /\ r[k + 1] # " "
       THEN ParserError("Missing space after pipe delimiter", <<>>)
       ELSE NoError

\* splitByDelimiterLoop with a pipe inside an open string literal kept as text
RECURSIVE splitByDelimiterQuoted(_, _, _, _)
splitByDelimiterQuoted(r, k, currentPart, ps) ==
  LET opened == { m \in 1..Len(currentPart) : currentPart[m] \in {"\"x"} }
      closed == { m \in 1..Len(currentPart) : currentPart[m] \in {"y\""} }
  IN  IF k > Len(r)
      THEN [error |-> NoError,
            parts |-> IF Trim(currentPart) # <<>> THEN Append(ps, Trim(currentPart)) ELSE ps]
      ELSE IF r[k] = "|" /\ Cardinality(opened) <= Cardinality(closed)
           THEN IF PipeError(r, k) # NoError
                THEN [error |-> PipeError(r, k), parts |-> <<>>]
                ELSE splitByDelimiterQuoted(r, k + 2, <<>>, Append(ps, Trim(currentPart)))
           ELSE splitByDelimiterQuoted(r, k + 1, Append(currentPart, r[k]), ps)

RECURSIVE splitByDelimiterLoop(_, _, _, _)
splitByDelimiterLoop(r, k, currentPart, ps) ==
  IF k > Len(r)
  THEN [error |-> NoError,
        parts |-> IF Trim(currentPart) # <<>> THEN Append(ps, Trim(currentPart)) ELSE ps]
  ELSE IF r[k] = "|"
       THEN IF PipeError(r, k) # NoError
            THEN [error |-> PipeError(r, k), parts |-> <<>>]
            ELSE splitByDelimiterLoop(r, k + 2, <<>>, Append(ps, Trim(currentPart)))
       ELSE splitByDelimiterLoop(r, k + 1, Append(currentPart, r[k]), ps)

splitByDelimiter(r) == splitByDelimiterLoop(r, 1, <<>>, <<>>)

(***************************************************************************)
(* ReqlineParser.splitBySpaces                                             *)
(***************************************************************************)
RECURSIVE splitBySpacesLoop(_, _, _, _)
splitBySpacesLoop(part, k, currentWord, words) ==
  IF k > Len(part)
  THEN IF currentWord # <<>> THEN Append(words, currentWord) ELSE words
  ELSE IF part[k] = " "
       THEN IF currentWord # <<>>
            THEN splitBySpacesLoop(part, k + 1, <<>>, Append(words, currentWord))
            ELSE splitBySpacesLoop(part, k + 1, currentWord, words)
       ELSE splitBySpacesLoop(part, k + 1, Append(currentWord, part[k]), words)

splitBySpaces(part) == splitBySpacesLoop(part, 1, <<>>, <<>>)

(***************************************************************************)
(* JSON.parse, on the value text of a segment.  White space between JSON   *)
(* tokens is insignificant.  A string literal without a space is one atom; *)
(* a string literal with spaces is an atom that opens it, the spaces and   *)
(* atoms inside it, and an atom that closes it.                            *)
(***************************************************************************)
StringContent ==
  [a \in {"\"a\"", "\"b\"", "\"s\"", "\"type\"", "\"file\"", "\"path\"", "\"/p\"",
          "\"filename\"", "\"n.txt\"", "\"contentType\"", "\"text/plain\""} |->
     CASE a = "\"a\"" -> "a"
       [] a = "\"b\"" -> "b"
       [] a = "\"s\"" -> "s"
       [] a = "\"type\"" -> "type"
       [] a = "\"file\"" -> "file"
       [] a = "\"path\"" -> "path"
       [] a = "\"/p\"" -> "/p"
       [] a = "\"filename\"" -> "filename"
       [] a = "\"n.txt\"" -> "n.txt"
       [] a = "\"contentType\"" -> "contentType"
       [] a = "\"text/plain\"" -> "text/plain"]

StringAtoms == DOMAIN StringContent

\* the atoms that open and that close a string literal with spaces in it
OpenAtoms == {"\"x"}

CloseAtoms == {"y\""}

\* a text of n spaces
RECURSIVE Blank(_)
Blank(n) == IF n = 0 THEN "" ELSE " " \o Blank(n - 1)

\* the string literals with spaces, each with its content
SpacedStrings == { [literal |-> "\"x" \o Blank(n) \o "y\"", content |-> "x" \o Blank(n) \o "y"] :
                     n \in 1..(MaxPad + 1) }

StringLiterals == StringAtoms \cup { l.literal : l \in SpacedStrings }

ContentOf(a) ==
  IF a \in StringAtoms THEN StringContent[a]
  ELSE (CHOOSE l \in SpacedStrings : l.literal = a).content

\* the JSON tokens of a text: the spaces between tokens are dropped, the
\* symbols from an opening atom to the next closing atom are one string
\* literal
RECURSIVE Tokens(_, _, _, _)
Tokens(value, inString, literal, out) ==
  IF value = <<>> THEN (IF inString THEN Append(out, literal) ELSE out)
  ELSE IF inString
       THEN IF value[1] \in CloseAtoms
            THEN Tokens(Tail(value), FALSE, "", Append(out, literal \o value[1]))
            ELSE Tokens(Tail(value), TRUE, literal \o value[1], out)
       ELSE IF value[1] = " " THEN Tokens(Tail(value), FALSE, "", out)
       ELSE IF value[1] \in OpenAtoms THEN Tokens(Tail(value), TRUE, value[1], out)
       ELSE Tokens(Tail(value), FALSE, "", Append(out, value[1]))

NumberAtoms == {"1", "2"}

JsonFail == [ok |-> FALSE, val |-> <<"null", "null">>, rest |-> <<>>]

JsonOk(v, rest) == [ok |-> TRUE, val |-> v, rest |-> rest]

\* later entries replace earlier ones with the same key
Merge(a, b) ==
  [k \in (DOMAIN a) \cup (DOMAIN b) |-> IF k \in DOMAIN b THEN b[k] ELSE a[k]]

Entry(k, v) == [x \in {k} |-> v]

RECURSIVE JsonValue(_), JsonMembers(_, _), JsonElements(_, _)
JsonValue(t) ==
  IF t = <<>> THEN JsonFail
  ELSE CASE t[1] = "{" ->
              IF Len(t) >= 2 /\ t[2] = "}"
              THEN JsonOk(<<"object", EmptyObject>>, SubSeq(t, 3, Len(t)))
              ELSE JsonMembers(Tail(t), EmptyObject)
         [] t[1] = "[" ->
              IF Len(t) >= 2 /\ t[2] = "]"
              THEN JsonOk(<<"array", <<>> >>, SubSeq(t, 3, Len(t)))
              ELSE JsonElements(Tail(t), <<>>)
         [] t[1] \in StringLiterals -> JsonOk(<<"string", ContentOf(t[1])>>, Tail(t))
         [] t[1] \in NumberAtoms -> JsonOk(<<"number", t[1]>>, Tail(t))
         [] t[1] \in {"true", "false"} -> JsonOk(<<"boolean", t[1]>>, Tail(t))
         [] t[1] = "null" -> JsonOk(<<"null", "null">>, Tail(t))
         [] OTHER -> JsonFail

JsonMembers(t, acc) ==
  IF Len(t) < 3 \/ t[1] \notin StringLiterals \/ t[2] # ":" THEN JsonFail
  ELSE LET Member(v, acc2) ==
             IF ~v.ok \/ v.rest = <<>> THEN JsonFail
             ELSE IF v.rest[1] = "}" THEN JsonOk(<<"object", acc2>>, Tail(v.rest))
             ELSE IF v.rest[1] = "," THEN JsonMembers(Tail(v.rest), acc2)
             ELSE JsonFail
           Value(v) == Member(v, Merge(acc, Entry(ContentOf(t[1]), v.val)))
       IN  Value(JsonValue(SubSeq(t, 3, Len(t))))

JsonElements(t, acc) ==
  LET Element(v) ==
        IF ~v.ok \/ v.rest = <<>> THEN JsonFail
        ELSE IF v.rest[1] = "]" THEN JsonOk(<<"array", Append(acc, v.val)>>, Tail(v.rest))
        ELSE IF v.rest[1] = "," THEN JsonElements(Tail(v.rest), Append(acc, v.val))
        ELSE JsonFail
  IN  Element(JsonValue(t))

JSONparse(value) ==
  LET Whole(r) == IF r.ok /\ r.rest = <<>> THEN r ELSE JsonFail
  IN  Whole(JsonValue(Tokens(value, FALSE, "", <<>>)))

\* the own enumerable properties an object spread copies: the entries of an
\* object, the index/element pairs of an array
OwnProperties(v) ==
  IF v[1] = "array"
  THEN [k \in {ToString(n - 1) : n \in 1..Len(v[2])} |->
          v[2][CHOOSE n \in 1..Len(v[2]) : ToString(n - 1) = k]]
  ELSE v[2]

(***************************************************************************)
(* URL texts.  The text of a URL is a sequence of tokens: a scheme with    *)
(* its colon, "//", "@", pieces of a host name, a port with its colon,     *)
(* pieces of a path, "?", "=", "&", names and values of a query, a space.  *)
(* Each text has one tokenisation, so two texts are the same characters    *)
(* exactly when they are the same sequence.                                *)
(***************************************************************************)
Schemes == {"http:", "https:"}

HostTokens == {"localhost", "example.com", ".example.com", "other.test"}

PortTokens == {":3000", ":x"}

\* the ports made of digits
ValidPorts == {":3000"}

\* the tokens a path or a query begins with
SlashTokens == {"/", "/x", "/users"}

\* the characters of an atom of a statement that is a URL
UrlSpelling ==
  [a \in {"https://example.com/x", "https://example.com", "https://example.com/x?a=1"} |->
     CASE a = "https://example.com/x" -> <<"https:", "//", "example.com", "/x">>
       [] a = "https://example.com" -> <<"https:", "//", "example.com">>
       [] a = "https://example.com/x?a=1" ->
            <<"https:", "//", "example.com", "/x", "?", "a", "=", "1">>]

RECURSIVE Spell(_)
Spell(value) ==
  IF value = <<>> THEN <<>>
  ELSE (IF value[1] \in DOMAIN UrlSpelling THEN UrlSpelling[value[1]] ELSE <<value[1]>>)
       \o Spell(Tail(value))

\* the first position of t at or after from that holds a token of S, else
\* one past the end
FirstOf(t, from, S) ==
  IF \E k \in from..Len(t) : t[k] \in S
  THEN CHOOSE k \in from..Len(t) : t[k] \in S /\ \A m \in from..(k - 1) : t[m] \notin S
  ELSE Len(t) + 1

\* the percent-encoding of a path or query: a space becomes %20
PercentEncode(t) == [k \in 1..Len(t) |-> IF t[k] = " " THEN "%20" ELSE t[k]]

RECURSIVE Concat(_)
Concat(t) == IF t = <<>> THEN "" ELSE t[1] \o Concat(Tail(t))

InvalidURL ==
  [ok |-> FALSE, protocol |-> "", userinfo |-> <<>>, host |-> <<>>, hostname |-> "",
   port |-> <<>>, pathname |-> <<>>, search |-> <<>>]

\* new URL(t): TypeError 'Invalid URL' (ok = FALSE) unless t is an absolute
\* http(s) URL with a host; an empty path becomes "/", spaces of the path and of
\* the query are percent-encoded, a "?" with nothing after it gives an empty
\* search
URL(t) ==
  IF Len(t) < 3 \/ t[1] \notin Schemes \/ t[2] # "//" THEN InvalidURL
  ELSE LET UrlRecord(auth, lastAt, hostport, path, query) ==
             LET hasPort == hostport # <<>> /\ hostport[Len(hostport)] \in PortTokens
                 host == IF hasPort THEN SubSeq(hostport, 1, Len(hostport) - 1) ELSE hostport
             IN  IF \/ host = <<>>
                    \/ \E k \in 1..Len(host) : host[k] \notin HostTokens
                    \/ hasPort /\ hostport[Len(hostport)] \notin ValidPorts
                 THEN InvalidURL
                 ELSE [ok |-> TRUE,
                       protocol |-> t[1],
                       userinfo |-> SubSeq(auth, 1, lastAt),
                       host |-> host,
                       hostname |-> Concat(host),
                       port |-> IF hasPort THEN <<hostport[Len(hostport)]>> ELSE <<>>,
                       pathname |-> IF path = <<>> THEN <<"/">> ELSE PercentEncode(path),
                       search |-> IF query = <<>> THEN <<>> ELSE <<"?">> \o PercentEncode(query)]
           AfterUserinfo(auth, lastAt, path, query) ==
             UrlRecord(auth, lastAt, SubSeq(auth, lastAt + 1, Len(auth)), path, query)
           Authority(endAuth, auth, qm) ==
             LET ats == { k \in 1..Len(auth) : auth[k] = "@" }
             IN  AfterUserinfo(auth,
                               IF ats = {} THEN 0 ELSE CHOOSE k \in ats : \A m \in ats : m <= k,
                               SubSeq(t, endAuth, qm - 1), SubSeq(t, qm + 1, Len(t)))
           From(endAuth) ==
             Authority(endAuth, SubSeq(t, 3, endAuth - 1), FirstOf(t, endAuth, {"?"}))
       IN  From(FirstOf(t, 3, SlashTokens \cup {"?"}))

\* url.toString()
Href(u) == <<u.protocol, "//">> \o u.userinfo \o u.host \o u.port \o u.pathname \o u.search

(***************************************************************************)
(* ReqlineParser: constructor, parseHttpMethod, parseUrl, parseJson,       *)
(* parsePart                                                               *)
(***************************************************************************)
keywords == {<<"HTTP">>, <<"URL">>, <<"HEADERS">>, <<"QUERY">>, <<"BODY">>}

validMethods == {<<"GET">>, <<"POST">>}

\* the result of parsePart: a thrown error, or {type, value}
Thrown(message, text) ==
  [error |-> ParserError(message, text), type |-> "", value |-> <<>>]

Part(type, value) == [error |-> NoError, type |-> type, value |-> value]

parseHttpMethod(value) ==
  IF value # toUpperCase(value) THEN Thrown("HTTP method must be uppercase", <<>>)
  ELSE IF value \notin validMethods
       THEN Thrown("Invalid HTTP method. Only GET and POST are supported", <<>>)
       ELSE Part("HTTP", value)

\* the absolute URLs of the statements
AbsoluteUrls == {"https://example.com/x", "https://example.com"}

\* new URL(value) succeeds: an absolute URL; text after a space is accepted
\* as part of the path, and rejected inside the host
UrlConstructs(value) == URL(Spell(value)).ok

parseUrl(value) ==
  IF Trim(value) = <<>> THEN Thrown("URL value cannot be empty", <<>>)
  ELSE IF ~UrlConstructs(value) THEN Thrown("Invalid URL format: ", value)
       ELSE Part("URL", value)

parseJson(value, keyword) ==
  IF Trim(value) = <<>> THEN Thrown(keyword \o " value cannot be empty", <<>>)
  ELSE LET Checked(r) ==
             IF ~r.ok THEN Thrown("Invalid JSON format in " \o keyword \o " section", <<>>)
             ELSE IF r.val[1] \notin {"object", "array"}
                  THEN Thrown(keyword \o " value must be a JSON object", <<>>)
                  ELSE Part(keyword, r.val)
       IN  Checked(JSONparse(value))

parsePart(part, index) ==
  LET words == splitBySpaces(part)
      keyword == words[1]
      value == join(Tail(words))
  IN  IF Len(words) < 2
      THEN IF index = 0 /\ words[1] # <<"HTTP">>
           THEN Thrown("Missing required HTTP keyword", <<>>)
           ELSE IF index = 1 /\ words[1] # <<"URL">>
                THEN Thrown("Missing required URL keyword", <<>>)
                ELSE Thrown("Invalid part format: ", part)
      ELSE IF keyword # toUpperCase(keyword)
           THEN Thrown("Keywords must be uppercase", <<>>)
      ELSE IF keyword \notin keywords
           THEN Thrown("Unknown keyword: ", keyword)
      ELSE CASE keyword = <<"HTTP">> -> parseHttpMethod(value)
             [] keyword = <<"URL">> -> parseUrl(value)
             [] keyword = <<"HEADERS">> -> parseJson(value, "HEADERS")
             [] keyword = <<"QUERY">> -> parseJson(value, "QUERY")
             [] keyword = <<"BODY">> -> parseJson(value, "BODY")
             [] OTHER -> Thrown("Unhandled keyword: ", keyword)

\* { ...target, ...source }
Spread(target, source) == Merge(target, OwnProperties(source))

(***************************************************************************)
(* The statements parse is applied to.                                     *)
(***************************************************************************)
UrlX == "https://example.com/x"

JsonA1 == <<"{", "\"a\"", ":", "1", "}">>
JsonA2B1 == <<"{", "\"a\"", ":", " ", "2", ",", " ", "\"b\"", ":", " ", "1", "}">>
JsonB2 == <<"{", "\"b\"", ":", "2", "}">>
JsonEmpty == <<"{", "}">>
JsonArray == <<"[", "1", ",", " ", "2", "]">>
JsonString == <<"\"s\"">>
JsonNumber == <<"1">>
JsonNull == <<"null">>
JsonTrue == <<"true">>
JsonBad == <<"{", "bad", "}">>
JsonField == <<"{", "\"a\"", ":", " ", "\"s\"", "}">>
JsonFile ==
  <<"{", "\"b\"", ":", " ", "{", "\"type\"", ":", " ", "\"file\"", ",", " ",
    "\"path\"", ":", " ", "\"/p\"", "}", ",", " ", "\"a\"", ":", " ", "\"s\"", "}">>
JsonFileFull ==
  <<"{", "\"b\"", ":", " ", "{", "\"type\"", ":", " ", "\"file\"", ",", " ",
    "\"path\"", ":", " ", "\"/p\"", ",", " ", "\"filename\"", ":", " ", "\"n.txt\"",
    ",", " ", "\"contentType\"", ":", " ", "\"text/plain\"", "}", "}">>
JsonFileNoPath == <<"{", "\"b\"", ":", " ", "{", "\"type\"", ":", " ", "\"file\"", "}", "}">>

Spaces(n) == [k \in 1..n |-> " "]

\* {"a": "x y"} with n spaces in the string
JsonSpaced(n) == <<"{", "\"a\"", ":", " ", "\"x">> \o Spaces(n) \o <<"y\"", "}">>

\* {"a": "x | y"} and {"a": "x|y"}
JsonPiped == <<"{", "\"a\"", ":", " ", "\"x", " ", "|", " ", "y\"", "}">>

JsonPipedTight == <<"{", "\"a\"", ":", " ", "\"x", "|", "y\"", "}">>

Seg(keyword, text) == <<keyword, " ">> \o text

\* segments for the position and keyword rules
StructSegs ==
  { Seg("HTTP", <<v>>) : v \in {"GET", "OPTIONS", "get"} }
  \cup { Seg("URL", <<u>>) : u \in {UrlX, "not-a-valid-url"} }
  \cup { <<"GET">>, <<"put">>, <<"HTTP">>, <<UrlX>>, <<>>,
         Seg("http", <<"GET">>), Seg("url", <<UrlX>>),
         Seg("QUERY", JsonA1), Seg("COOKIES", JsonA1) }

\* segments for the spacing rules
SpacedSegs == { Seg("HTTP", <<"GET">>), Seg("URL", <<UrlX>>), Seg("HTTP", <<"OPTIONS">>) }

\* segments for the merge rule
ObjectSegs ==
  { Seg(k, j) : k \in {"HEADERS", "QUERY", "BODY"}, j \in {JsonA1, JsonA2B1, JsonB2} }

\* segments for the value rules
ValueTexts ==
  {JsonA1, JsonEmpty, JsonArray, JsonString, JsonNumber, JsonNull, JsonTrue, JsonBad}

FormDataTexts == {JsonField, JsonFile, JsonFileFull, JsonFileNoPath, JsonBad}

ValueSegs ==
  { Seg(k, j) : k \in {"HEADERS", "QUERY", "BODY"}, j \in ValueTexts }
  \cup { Seg("FORMDATA", j) : j \in FormDataTexts }

\* segments whose value has a string with spaces or with a pipe in it, URLs
\* with a pipe in them
LiteralSegs ==
  { Seg(k, JsonSpaced(n)) : k \in {"HEADERS", "QUERY", "BODY"}, n \in 1..MaxPad }
  \cup { Seg("BODY", j) : j \in {JsonPiped, JsonPipedTight} }

PipedUrlSegs == { Seg("URL", <<UrlX>> \o p \o <<"y">>) : p \in { <<"|">>, <<" ", "|", " ">> } }

\* segments for the rules on values of several segments
MixedSegs ==
  { Seg("BODY", JsonA1), Seg("BODY", JsonEmpty), Seg("HEADERS", JsonArray),
    Seg("QUERY", JsonNull), Seg("FORMDATA", JsonField), Seg("FORMDATA", JsonFile) }

\* a pipe with 0..MaxPad spaces on each side
Delims == { Spaces(l) \o <<"|">> \o Spaces(r) : l \in 0..MaxPad, r \in 0..MaxPad }

Delim == <<" ", "|", " ">>

\* what a statement may have before its first and after its last segment
Leads == { <<>>, <<" ">>, <<"|">>, <<"|", " ">> }

Trails == { <<>>, <<" ">>, <<"|">>, <<" ", "|">> }

SeqsUpTo(S, lo, hi) == UNION { [1..n -> S] : n \in lo..hi }

\* the statement made of the segments segs, segs[k] and segs[k+1] separated by
\* delims[k]
RECURSIVE Statement(_, _)
Statement(segs, delims) ==
  IF segs = <<>> THEN <<>>
  ELSE IF Len(segs) = 1 THEN segs[1]
  ELSE segs[1] \o delims[1] \o Statement(Tail(segs), Tail(delims))

Plain(segs) == Statement(segs, [k \in 1..Len(segs) |-> Delim])

Valid2 == <<Seg("HTTP", <<"GET">>), Seg("URL", <<UrlX>>)>>

SupportedVerbs == {"GET", "POST", "PUT", "DELETE", "PATCH"}

SimpleStatement(v, u) == Plain(<<Seg("HTTP", <<v>>), Seg("URL", <<u>>)>>)

Statements ==
  { SimpleStatement(v, u) : v \in SupportedVerbs \cup {"OPTIONS"}, u \in AbsoluteUrls }
  \cup { Plain(segs) : segs \in SeqsUpTo(StructSegs, 1, MaxSegs) }
  \cup { lead \o Statement(segs, delims) \o trail :
           segs \in SeqsUpTo(SpacedSegs, 2, MaxSpaced),
           delims \in [1..(MaxSpaced - 1) -> Delims],
           lead \in Leads, trail \in Trails }
  \cup { Plain(<<Seg("HTTP", <<v>>), Seg("URL", <<UrlX>>)>> \o tail) :
           v \in {"GET", "POST"}, tail \in SeqsUpTo(ObjectSegs, 0, MaxTail) }
  \cup { Plain(<<Seg("HTTP", <<"POST">>), Seg("URL", <<u>>), seg>>) :
           u \in AbsoluteUrls, seg \in ValueSegs }
  \cup { Plain(<<Seg("HTTP", <<"POST">>), Seg("URL", <<u>>)>> \o tail) :
           u \in AbsoluteUrls, tail \in SeqsUpTo(MixedSegs, 2, MaxValues) }
  \cup { Plain(<<Seg("HTTP", <<"POST">>), Seg("URL", <<UrlX>>), seg>>) : seg \in LiteralSegs }
  \cup { Plain(<<Seg("HTTP", <<"GET">>), seg>>) : seg \in PipedUrlSegs }

(***************************************************************************)
(* ReqlineParser.parse                                                     *)
(***************************************************************************)
EmptyParsed ==
  [method |-> Null, url |-> Null, headers |-> EmptyObject, query |-> EmptyObject,
   body |-> EmptyObject]

Init ==
  /\ reqline \in Statements
  /\ pc = "start"
  /\ parts = <<>>
  /\ i = 0
  /\ parsed = EmptyParsed
  /\ error = NoError
  /\ cookieJar = << >>
  /\ calls = <<>>
  /\ lastEvent = [kind |-> "none", call |-> 0]
  /\ proxyTarget = Undefined
  /\ proxyPc = "none"
  /\ originalUrl = Undefined
  /\ proxyOut = Undefined
  /\ servicePc = "none"
  /\ serviceOut = Undefined

Throw(e) ==
  /\ pc' = "thrown"
  /\ error' = e
  /\ UNCHANGED <<reqline, parts, i, parsed>>

\* the checks before the loop: empty statement, segmentation, at least two
\* parts, first word of the first part.  A statement is a string here, so the
\* 'Invalid reqline statement' branch for other values is not taken.
FirstWordError(ps) ==
  LET firstPart == Trim(ps[1])
      ws == splitBySpaces(firstPart)
  IN  IF ws # <<>> /\ toUpperCase(ws[1]) # <<"HTTP">>
      THEN IF toUpperCase(ws[1]) = <<"GET">> \/ toUpperCase(ws[1]) = <<"POST">>
           THEN ParserError("Missing required HTTP keyword", <<>>)
           ELSE ParserError("HTTP keyword must be first", <<>>)
      ELSE NoError

ParseStart ==
  /\ pc = "start"
  /\ UNCHANGED serviceVars
  /\ LET trimmed == Trim(reqline)
         split == splitByDelimiter(trimmed)
     IN  IF reqline = <<>> \/ trimmed = <<>>
         THEN Throw(ParserError("Empty reqline statement", <<>>))
         ELSE IF split.error # NoError THEN Throw(split.error)
         ELSE IF Len(split.parts) < 2
              THEN IF \A k \in 1..Len(trimmed) : trimmed[k] # "|"
                   THEN Throw(ParserError("Missing pipe delimiter (|). Use format: HTTP GET | URL https://example.com", <<>>))
                   ELSE Throw(ParserError("Invalid reqline format. Expected at least HTTP and URL. Check examples if you need help with the format", <<>>))
         ELSE IF FirstWordError(split.parts) # NoError
              THEN Throw(FirstWordError(split.parts))
         ELSE /\ pc' = "loop"
              /\ parts' = split.parts
              /\ i' = 0
              /\ parsed' = EmptyParsed
              /\ UNCHANGED <<reqline, error>>

\* PositionError without the checks of the position
PositionErrorOnceOnly(parsedPart, index, p) ==
  IF parsedPart.type = "HTTP" /\ p.method # Null
  THEN ParserError("HTTP method can only appear once", <<>>)
  ELSE IF parsedPart.type = "URL" /\ p.url # Null
  THEN ParserError("URL can only appear once", <<>>)
  ELSE NoError

\* the checks on a parsed HTTP or URL part: once, and at its position
PositionError(parsedPart, index, p) ==
  IF parsedPart.type = "HTTP" /\ p.method # Null
  THEN ParserError("HTTP method can only appear once", <<>>)
  ELSE IF parsedPart.type = "HTTP" /\ index # 0
  THEN ParserError("HTTP keyword must be first", <<>>)
  ELSE IF parsedPart.type = "URL" /\ p.url # Null
  THEN ParserError("URL can only appear once", <<>>)
  ELSE IF parsedPart.type = "URL" /\ index # 1
  THEN ParserError("URL keyword must be second", <<>>)
  ELSE NoError

\* one iteration of the loop over the parts; parsePart throws ParserErrors
\* only, which the catch block rethrows as they are
ParseLoop ==
  /\ pc = "loop"
  /\ i < Len(parts)
  /\ UNCHANGED serviceVars
  /\ LET part == Trim(parts[i + 1])
     IN  IF part = <<>>
         THEN /\ i' = i + 1
              /\ UNCHANGED <<reqline, pc, parts, parsed, error>>
         ELSE \E parsedPart \in {parsePart(part, i)} :
              IF parsedPart.error # NoError THEN Throw(parsedPart.error)
              ELSE IF PositionError(parsedPart, i, parsed) # NoError
                   THEN Throw(PositionError(parsedPart, i, parsed))
              ELSE /\ parsed' =
                        CASE parsedPart.type = "HTTP" -> [parsed EXCEPT !.method = parsedPart.value]
                          [] parsedPart.type = "URL" -> [parsed EXCEPT !.url = parsedPart.value]
                          [] parsedPart.type = "HEADERS" ->
                               [parsed EXCEPT !.headers = Spread(parsed.headers, parsedPart.value)]
                          [] parsedPart.type = "QUERY" ->
                               [parsed EXCEPT !.query = Spread(parsed.query, parsedPart.value)]
                          [] parsedPart.type = "BODY" ->
                               [parsed EXCEPT !.body = Spread(parsed.body, parsedPart.value)]
                          [] OTHER -> parsed
                   /\ i' = i + 1
                   /\ UNCHANGED <<reqline, pc, parts, error>>

\* after the loop: the required fields, then the result
ParseFinish ==
  /\ pc = "loop"
  /\ i = Len(parts)
  /\ UNCHANGED serviceVars
  /\ IF parsed.method = Null \/ parsed.method = <<>>
     THEN Throw(ParserError("Missing required HTTP keyword", <<>>))
     ELSE IF parsed.url = Null \/ parsed.url = <<>>
          THEN Throw(ParserError("Missing required URL keyword", <<>>))
          ELSE /\ pc' = "returned"
               /\ UNCHANGED <<reqline, parts, i, parsed, error>>

Next == ParseStart \/ ParseLoop \/ ParseFinish

Spec == Init /\ [][Next]_vars

(***************************************************************************)
(* ReqlineExecutor (services/reqline/executor.js): strings                 *)
(***************************************************************************)
\* String.prototype.split(sep)
RECURSIVE Split(_, _)
Split(t, sep) ==
  LET k == FirstOf(t, 1, {sep})
  IN  IF k > Len(t) THEN <<t>>
      ELSE <<SubSeq(t, 1, k - 1)>> \o Split(SubSeq(t, k + 1, Len(t)), sep)

\* Array.prototype.join(sep)
RECURSIVE JoinWith(_, _)
JoinWith(texts, sep) ==
  IF texts = <<>> THEN <<>>
  ELSE IF Len(texts) = 1 THEN texts[1]
  ELSE texts[1] \o sep \o JoinWith(Tail(texts), sep)

LowerTable ==
  [a \in {"GET", "POST", "PUT", "DELETE", "PATCH", "Path", "Max-Age", "Expires",
          "Domain", "Secure", "HttpOnly", "Content-Type"} |->
     CASE a = "GET" -> "get"
       [] a = "POST" -> "post"
       [] a = "PUT" -> "put"
       [] a = "DELETE" -> "delete"
       [] a = "PATCH" -> "patch"
       [] a = "Path" -> "path"
       [] a = "Max-Age" -> "max-age"
       [] a = "Expires" -> "expires"
       [] a = "Domain" -> "domain"
       [] a = "Secure" -> "secure"
       [] a = "HttpOnly" -> "httponly"
       [] a = "Content-Type" -> "content-type"]

toLowerCase(s) ==
  [k \in 1..Len(s) |-> IF s[k] \in DOMAIN LowerTable THEN LowerTable[s[k]] ELSE s[k]]

DigitAtoms == {"0", "1", "2", "60"}

\* parseInt(v, 10)
parseInt(v) ==
  LET w == TrimLeft(v)
  IN  IF w # <<>> /\ w[1] \in DigitAtoms THEN <<w[1]>> ELSE <<"NaN">>

\* the order of Object.entries and Object.keys: index keys first, then the
\* other keys as inserted; the objects of the model insert their keys in this
\* order
KeyOrder ==
  <<"0", "1", "2", "Content-Type", "Cookie", "a", "b", "content-type", "s", "type",
    "file", "path", "/p", "filename", "n.txt", "contentType", "text/plain">>

ObjectEntries(obj) ==
  LET keys == SelectSeq(KeyOrder, LAMBDA k : k \in DOMAIN obj)
  IN  [n \in 1..Len(keys) |-> <<keys[n], obj[keys[n]]>>]

\* String(value), as URLSearchParams.append converts its argument
RECURSIVE String(_)
String(v) ==
  IF v[1] = "object" THEN "[object Object]"
  ELSE IF v[1] = "array"
       THEN IF v[2] = <<>> THEN ""
            ELSE IF Len(v[2]) = 1 THEN String(v[2][1])
            ELSE String(v[2][1]) \o "," \o String(<<"array", Tail(v[2])>>)
       ELSE v[2]

(***************************************************************************)
(* URLSearchParams and buildFullUrl                                        *)
(***************************************************************************)
\* the decoding of a name or value of a query: %20 and + are a space
DecodeQuery(t) == [k \in 1..Len(t) |-> IF t[k] \in {"%20", "+"} THEN " " ELSE t[k]]

\* the application/x-www-form-urlencoded encoding: a space is +
EncodeQuery(t) == [k \in 1..Len(t) |-> IF t[k] = " " THEN "+" ELSE t[k]]

\* url.searchParams: the name/value pairs of a search text
SearchPairs(search) ==
  LET texts == SelectSeq(Split(Tail(search), "&"), LAMBDA p : p # <<>>)
      Pair(p) == LET nv == Split(p, "=")
                 IN  <<DecodeQuery(nv[1]), DecodeQuery(JoinWith(Tail(nv), <<"=">>))>>
  IN  IF search = <<>> THEN <<>> ELSE [n \in 1..Len(texts) |-> Pair(texts[n])]

\* the search text a list of pairs is serialised to
SerializePairs(pairs) ==
  IF pairs = <<>> THEN <<>>
  ELSE <<"?">> \o
       JoinWith([n \in 1..Len(pairs) |->
                   EncodeQuery(pairs[n][1]) \o <<"=">> \o EncodeQuery(pairs[n][2])],
                <<"&">>)

\* the pairs appended for the entries of queryParams
AppendedPairs(queryParams) ==
  LET entries == ObjectEntries(queryParams[2])
  IN  [n \in 1..Len(entries) |->
         <<(<<entries[n][1]>>),
           IF String(entries[n][2]) = "" THEN <<>> ELSE <<String(entries[n][2])>> >>]

\* buildFullUrl with the entries of queryParams replacing the pairs of baseUrl
\* that have the same name
buildFullUrlReplacing(baseUrl, queryParams) ==
  IF queryParams \in {Null, Undefined} \/ DOMAIN queryParams[2] = {}
  THEN [ok |-> TRUE, url |-> baseUrl]
  ELSE LET url == URL(baseUrl)
           added == AppendedPairs(queryParams)
           kept == SelectSeq(SearchPairs(url.search),
                             LAMBDA p : \A n \in 1..Len(added) : added[n][1] # p[1])
       IN  IF ~url.ok THEN [ok |-> FALSE, url |-> <<>>]
           ELSE [ok |-> TRUE,
                 url |-> Href([url EXCEPT !.search = SerializePairs(kept \o added)])]

\* buildFullUrl: ok = FALSE when new URL(baseUrl) throws its TypeError
buildFullUrl(baseUrl, queryParams) ==
  IF queryParams \in {Null, Undefined} \/ DOMAIN queryParams[2] = {}
  THEN [ok |-> TRUE, url |-> baseUrl]
  ELSE LET url == URL(baseUrl)
       IN  IF ~url.ok THEN [ok |-> FALSE, url |-> <<>>]
           ELSE [ok |-> TRUE,
                 url |-> Href([url EXCEPT !.search =
                                 SerializePairs(SearchPairs(url.search)
                                                \o AppendedPairs(queryParams))])]

extractDomain(url) ==
  LET HostnameOf(urlObj) == IF urlObj.ok THEN urlObj.hostname ELSE "unknown"
  IN  HostnameOf(URL(url))

(***************************************************************************)
(* The cookie jar                                                          *)
(***************************************************************************)
Bucket(jar, domain) == IF domain \in DOMAIN jar THEN jar[domain] ELSE <<>>

CookieText(cookie) == cookie.name \o <<"=">> \o cookie.value

getCookiesForDomain(jar, domain) ==
  [k \in 1..Len(Bucket(jar, domain)) |-> CookieText(Bucket(jar, domain)[k])]

\* the attributes parseCookieHeader reads from the parts after the first
RECURSIVE CookieAttributes(_, _)
CookieAttributes(ps, acc) ==
  IF ps = <<>> THEN acc
  ELSE LET Attribute(attrName, attrValue) ==
             CASE attrName = <<"expires">> -> Entry("expires", attrValue)
               [] attrName = <<"max-age">> -> Entry("maxAge", parseInt(attrValue))
               [] attrName = <<"domain">> -> Entry("domain", attrValue)
               [] attrName = <<"path">> -> Entry("path", attrValue)
               [] attrName = <<"secure">> -> Entry("secure", <<"true">>)
               [] attrName = <<"httponly">> -> Entry("httpOnly", <<"true">>)
               [] OTHER -> EmptyObject
           Set(av) == Attribute(toLowerCase(Trim(av[1])),
                                IF Len(av) >= 2 THEN av[2] ELSE Undefined)
       IN  CookieAttributes(Tail(ps), Merge(acc, Set(Split(ps[1], "="))))

\* parseCookieHeader: Null, or <<"object", cookie>> for the cookie {name,
\* value, attributes}
parseCookieHeader(cookieHeader) ==
  LET Cookie(ps, nv) ==
        IF nv[1] = <<>> \/ Len(nv) < 2 \/ nv[2] = <<>> THEN Null
        ELSE <<"object", [name |-> Trim(nv[1]), value |-> Trim(nv[2]),
                          attributes |-> CookieAttributes(Tail(ps), EmptyObject)]>>
      Parts(ps) == Cookie(ps, Split(ps[1], "="))
  IN  Parts(Split(cookieHeader, ";"))

\* response.headers['set-cookie'] || response.headers['Set-Cookie']
SetCookieHeaders(response) ==
  IF "set-cookie" \in DOMAIN response.headers THEN response.headers["set-cookie"]
  ELSE IF "Set-Cookie" \in DOMAIN response.headers THEN response.headers["Set-Cookie"]
  ELSE Undefined

\* the update of a bucket that pushes every parsed cookie
UpsertAppending(domainCookies, cookie) == Append(domainCookies, cookie)

\* the update of a bucket for one parsed cookie
Upsert(domainCookies, cookie) ==
  IF \E k \in 1..Len(domainCookies) : domainCookies[k].name = cookie.name
  THEN LET existingIndex == CHOOSE k \in 1..Len(domainCookies) :
                               /\ domainCookies[k].name = cookie.name
                               /\ \A m \in 1..(k - 1) : domainCookies[m].name # cookie.name
       IN  [domainCookies EXCEPT ![existingIndex] = cookie]
  ELSE Append(domainCookies, cookie)

RECURSIVE StoreAll(_, _)
StoreAll(domainCookies, headers) ==
  IF headers = <<>> THEN domainCookies
  ELSE LET Stored(cookie) ==
             IF cookie = Null THEN domainCookies ELSE Upsert(domainCookies, cookie[2])
       IN  StoreAll(Stored(parseCookieHeader(headers[1])), Tail(headers))

\* storeCookiesFromResponse: the jar after it
storeCookiesFromResponse(jar, response, domain) ==
  IF SetCookieHeaders(response) = Undefined THEN jar
  ELSE Merge(jar, Entry(domain, StoreAll(Bucket(jar, domain), SetCookieHeaders(response))))

getCookiesFromResponse(response) ==
  IF SetCookieHeaders(response) = Undefined THEN <<>>
  ELSE LET cookies == [k \in 1..Len(SetCookieHeaders(response)) |->
                         parseCookieHeader(SetCookieHeaders(response)[k])]
           Texts(kept) == [k \in 1..Len(kept) |-> CookieText(kept[k][2])]
       IN  Texts(SelectSeq(cookies, LAMBDA c : c # Null))

(***************************************************************************)
(* createFormData.  The file system is the environment of the executor:    *)
(* /p is a regular file, /d a directory, no other path exists.             *)
(***************************************************************************)
Files == {"/p"}

Directories == {"/d"}

existsSync(path) == path \in Files \cup Directories

isFile(path) == path \in Files

\* the message of the error the callback of a file entry throws, "" for none
FileError(fileInfo) ==
  IF ~existsSync(fileInfo.path) THEN "File not found: "
  ELSE IF ~isFile(fileInfo.path) THEN "Path is not a file: "
  ELSE ""

\* createFormData: the FormData instance it returns and the rejections of the
\* promises of its file callbacks; it throws nothing to its caller.  The
\* callbacks are async functions passed to forEach, which drops the promises
\* they return: an error thrown in a callback rejects a promise nobody awaits
\* and is not thrown by createFormData.
createFormData(formData) ==
  LET files == formData[2].files
      failing == { k \in DOMAIN files : FileError(files[k]) # "" }
  IN  [instance |-> [fields |-> formData[2].fields,
                     files |-> [k \in (DOMAIN files) \ failing |-> files[k]]],
       rejected |-> { [message |-> "Error processing file", key |-> k,
                       cause |-> FileError(files[k]), text |-> files[k].path] :
                      k \in failing }]

(***************************************************************************)
(* execute.  A call of execute runs up to its first await in one step      *)
(* (Execute, or ProxyForward for a proxied call), continues after the      *)
(* await of createFormData (AttachFormData) and after the await of axios   *)
(* (AxiosResolves, AxiosRejectsWithResponse, AxiosNoResponse,              *)
(* AxiosSetupError).  Calls interleave at their awaits.                    *)
(***************************************************************************)
MaxCalls == 2

Timeout == 30000

Falsy(v) == v \in {Null, Undefined}

NoResponse == [status |-> 0, headers |-> EmptyObject]

ExecError(name, message, cause) == [name |-> name, message |-> message, cause |-> cause]

NoExecError == ExecError("", "", "")

EmptyForm == [fields |-> EmptyObject, files |-> EmptyObject]

PayloadMethods == {<<"POST">>, <<"PUT">>, <<"PATCH">>}

\* the condition of lines 38-41 without the test of the method
CarriesPayloadAnyMethod(request) ==
  DOMAIN request.body[2] # {} \/ ~Falsy(request.formData)

\* the condition of lines 38-41
CarriesPayload(request) ==
  /\ request.method \in PayloadMethods
  /\ DOMAIN request.body[2] # {} \/ ~Falsy(request.formData)

\* lines 22-35: the call with its request configuration, before the payload
PreparedCall(request, built, domain, cookies, after) ==
  LET spread == Spread(EmptyObject, request.headers)
  IN  [pc |-> "sent", request |-> request, fullUrl |-> built.url,
       domain |-> domain, cookies |-> cookies,
       config |-> [method |-> toLowerCase(request.method), url |-> built.url,
                   headers |-> IF Len(cookies) > 0
                               THEN Merge(spread, Entry("Cookie", JoinWith(cookies, <<";", " ">>)))
                               ELSE spread,
                   data |-> <<"none">>,
                   timeout |-> Timeout],
       form |-> EmptyForm, unhandled |-> {}, response |-> NoResponse,
       result |-> Undefined, error |-> NoExecError, after |-> after]

\* the TypeError of line 16, else lines 37-56: the payload of the call
AttachPayload(request, built, form, call) ==
  IF ~built.ok
  THEN [call EXCEPT !.pc = "thrown", !.domain = "", !.cookies = <<>>,
                    !.config.method = <<>>, !.config.headers = EmptyObject,
                    !.error = ExecError("TypeError", "Invalid URL", "")]
  ELSE IF CarriesPayload(request) /\ ~Falsy(request.formData)
  THEN [call EXCEPT !.pc = "formdata", !.form = form.instance,
                    !.unhandled = form.rejected]
  ELSE IF CarriesPayload(request)
  THEN [call EXCEPT !.config.headers =
                      Merge(call.config.headers,
                            Entry("Content-Type", <<"string", "application/json">>)),
                    !.config.data = <<"json", request.body>>]
  ELSE call

\* lines 19-56 for the full URL and the hostname of the request
ExecuteFrom(request, built, domain, jar, after) ==
  AttachPayload(request, built, createFormData(request.formData),
                PreparedCall(request, built, domain, getCookiesForDomain(jar, domain), after))

\* the call of execute(request) when it reaches its first await or throws
ExecuteStart(request, jar, after) ==
  ExecuteFrom(request, buildFullUrl(request.url, request.query),
              extractDomain(request.url), jar, after)

\* the value execute returns for a response
ExecutionResult(call, response) ==
  <<"object",
    [request |-> [query |-> call.request.query,
                  body |-> IF ~Falsy(call.request.formData)
                           THEN <<"object", [formData |-> call.request.formData]>>
                           ELSE call.request.body,
                  headers |-> call.request.headers,
                  full_url |-> call.fullUrl,
                  cookies_sent |-> IF Len(call.cookies) > 0 THEN call.cookies ELSE Undefined],
     response |-> [http_status |-> response.status,
                   cookies_received |-> getCookiesFromResponse(response)]]>>

\* the call that completed last, if nothing started or completed since
After == IF lastEvent.kind = "done" THEN lastEvent.call ELSE 0

Started(call, n) ==
  [kind |-> IF call.pc = "thrown" THEN "done" ELSE "start", call |-> n]

\* delete headers[name]
Delete(headers, name) == [k \in (DOMAIN headers) \ {name} |-> headers[k]]

\* lines 45-47 and 55-58: the payload is attached and the request is sent
AttachFormData ==
  \E c \in 1..Len(calls) :
    /\ calls[c].pc = "formdata"
    /\ calls' = [calls EXCEPT ![c].pc = "sent",
                              ![c].config.data = <<"form", calls[c].form>>,
                              ![c].config.headers =
                                Delete(calls[c].config.headers, "Content-Type")]
    /\ UNCHANGED <<cookieJar, lastEvent, proxyVars, parseReqlineVars>>
    /\ UNCHANGED parserVars

\* axios resolves only for the statuses 2xx (its default validateStatus)
Resolves(response) == response.status >= 200 /\ response.status < 300

(***************************************************************************)
(* The requests execute is called with, and the responses of the servers.  *)
(***************************************************************************)
UrlD == <<"https:", "//", "example.com", "/x">>

UrlD2 == <<"http:", "//", "example.com", ":3000", "/users">>

UrlOther == <<"https:", "//", "other.test", "/x">>

UrlQuery == <<"https:", "//", "example.com", "/x", "?", "a", "=", "1">>

UrlFlag == <<"https:", "//", "example.com", "/x", "?", "b", "&", "a", "=", "s", "%20", "s">>

UrlBare == <<"https:", "//", "example.com">>

UrlBad == <<"not-a-url">>

Object(f) == <<"object", f>>

Request(method, url, headers, query, body, formData) ==
  [method |-> method, url |-> url, headers |-> headers, query |-> query,
   body |-> body, formData |-> formData]

Number(n) == <<"number", n>>

Text(t) == <<"string", t>>

A1 == Object(Entry("a", Number("1")))

A2B1 == Object(Merge(Entry("a", Number("2")), Entry("b", Number("1"))))

FormFields == Object([fields |-> Entry("a", Text("s")), files |-> EmptyObject])

FormFile(path) ==
  Object([fields |-> Entry("a", Text("s")),
          files |-> Entry("b", [path |-> path, filename |-> "b",
                                contentType |-> "application/octet-stream"])])

\* requests for the cookie rules
CookieRequests ==
  { Request(<<"GET">>, u, Object(EmptyObject), Object(EmptyObject), Object(EmptyObject), Null) :
      u \in {UrlD, UrlD2, UrlOther} }

\* requests for the payload rules
PayloadRequests ==
  { Request(<<m>>, UrlD, Object(EmptyObject), Object(EmptyObject), bf[1], bf[2]) :
      m \in SupportedVerbs,
      bf \in { <<Object(EmptyObject), Null>>, <<A1, Null>>,
               <<Object(EmptyObject), FormFields>>, <<A1, FormFields>> } }
  \cup { Request(<<"POST">>, UrlD, Object(Entry(h, Text("text/plain"))), Object(EmptyObject),
                 Object(EmptyObject), FormFields) :
           h \in {"Content-Type", "content-type"} }
  \cup { Request(<<"POST">>, UrlD, Object(EmptyObject), Object(EmptyObject),
                 Object(EmptyObject), FormFile(path)) :
           path \in {"/p", "/d", "/missing"} }

\* requests for the rules of the full URL
UrlRequests ==
  { Request(<<"GET">>, u, Object(EmptyObject), q, Object(EmptyObject), Null) :
      u \in {UrlD, UrlQuery, UrlBad}, q \in {Null, Object(EmptyObject), A1, A2B1} }
  \cup { Request(<<"GET">>, u, Object(EmptyObject), A1, Object(EmptyObject), Null) :
           u \in {UrlFlag, UrlBare} }

ExecRequests == CookieRequests \cup PayloadRequests \cup UrlRequests

\* a request that axios cannot set up: its URL is not one
SetupFailingRequests ==
  { Request(<<"GET">>, UrlBad, Object(EmptyObject), Object(EmptyObject), Object(EmptyObject), Null) }

\* The calls of a run are up to MaxCalls calls with requests for the cookie
\* rules, the last of them possibly the request that cannot be set up, or one
\* call with another request: the servers of the other requests set no
\* cookies, so such a call reads an empty jar and leaves it empty.
CallsOf(request) ==
  IF request \in CookieRequests \cup SetupFailingRequests THEN MaxCalls ELSE 1

Statuses == {200, 404, 500}

SetS1 == <<"s", "=", "1", ";", " ", "Path", "=", "/">>

SetS2 == <<"s", "=", "2", ";", " ", "Max-Age", "=", "0">>

SetT1 == <<"t", "=", "1", ";", " ", "Max-Age", "=", "60">>

SetBad == <<"bad">>

SetEq == <<"u", "=", "a", "=", "b">>

Response(status, headers) == [status |-> status, headers |-> headers]

PlainResponses == { Response(st, EmptyObject) : st \in Statuses }

Responses ==
  PlainResponses
  \cup { Response(st, Entry("set-cookie", <<SetS1>>)) : st \in Statuses }
  \cup { Response(200, Entry("set-cookie", hs)) : hs \in { <<SetS2>>, <<SetS1, SetBad, SetT1>>, <<SetEq>> } }

\* the servers of the payload and URL requests set no cookies
ResponsesTo(request) == IF request \in CookieRequests THEN Responses ELSE PlainResponses

\* error.message of a request that got no response
TransportFailures ==
  {"connect ECONNREFUSED", "getaddrinfo ENOTFOUND", "timeout of 30000ms exceeded"}

\* the response arrives with a status 2xx: lines 59-80
AxiosResolves ==
  \E c \in 1..Len(calls) : \E response \in ResponsesTo(calls[c].request) :
    /\ calls[c].pc = "sent"
    /\ URL(calls[c].config.url).ok
    /\ Resolves(response)
    /\ cookieJar' = storeCookiesFromResponse(cookieJar, response, calls[c].domain)
    /\ calls' = [calls EXCEPT ![c].pc = "returned",
                              ![c].response = response,
                              ![c].result = ExecutionResult(calls[c], response)]
    /\ lastEvent' = [kind |-> "done", call |-> c]
    /\ UNCHANGED <<proxyVars, parseReqlineVars>>
    /\ UNCHANGED parserVars

\* the error axios rejects with: error.response, whether error.request is
\* set, error.message
AxiosError(response, request, message) ==
  [response |-> response, request |-> request, message |-> message]

\* the catch block with an error status handled as a request without response
CatchFailingOnStatus(call, err) ==
  IF err.request
  THEN [call EXCEPT !.pc = "thrown",
                    !.error = ExecError("Error", "No response received from server: ",
                                        err.message)]
  ELSE [call EXCEPT !.pc = "thrown",
                    !.error = ExecError("Error", "Request setup error: ", err.message)]

\* the catch block, lines 81-112: the call after it
Catch(call, err) ==
  IF err.response # NoResponse
  THEN [call EXCEPT !.pc = "returned", !.result = ExecutionResult(call, err.response)]
  ELSE IF err.request
  THEN [call EXCEPT !.pc = "thrown",
                    !.error = ExecError("Error", "No response received from server: ",
                                        err.message)]
  ELSE [call EXCEPT !.pc = "thrown",
                    !.error = ExecError("Error", "Request setup error: ", err.message)]

\* the catch block with the cookies of the hostname cleared
CatchClearingJar(jar, call, err) == [d \in (DOMAIN jar) \ {call.domain} |-> jar[d]]

\* the catch block, lines 81-112: the jar after it; the block stores nothing
CatchJar(jar, call, err) == jar

\* the response arrives with another status and axios rejects with
\* error.response set
AxiosRejectsWithResponse ==
  \E c \in 1..Len(calls) : \E response \in ResponsesTo(calls[c].request) :
    /\ calls[c].pc = "sent"
    /\ URL(calls[c].config.url).ok
    /\ ~Resolves(response)
    /\ calls' = [calls EXCEPT
                   ![c] = Catch([calls[c] EXCEPT !.response = response],
                                AxiosError(response, TRUE,
                                           "Request failed with status code"))]
    /\ cookieJar' = CatchJar(cookieJar, calls[c],
                             AxiosError(response, TRUE, "Request failed with status code"))
    /\ lastEvent' = [kind |-> "done", call |-> c]
    /\ UNCHANGED <<proxyVars, parseReqlineVars>>
    /\ UNCHANGED parserVars

\* the request was sent and no response arrives (connection refused, DNS
\* failure, timeout): axios rejects with error.request set
AxiosNoResponse ==
  \E c \in 1..Len(calls) : \E cause \in TransportFailures :
    /\ calls[c].pc = "sent"
    /\ calls' = [calls EXCEPT ![c] = Catch(calls[c], AxiosError(NoResponse, TRUE, cause))]
    /\ cookieJar' = CatchJar(cookieJar, calls[c], AxiosError(NoResponse, TRUE, cause))
    /\ lastEvent' = [kind |-> "done", call |-> c]
    /\ UNCHANGED <<proxyVars, parseReqlineVars>>
    /\ UNCHANGED parserVars

\* axios rejects before it sends anything, with neither error.response nor
\* error.request
AxiosSetupError ==
  \E c \in 1..Len(calls) :
    /\ calls[c].pc = "sent"
    /\ ~URL(calls[c].config.url).ok
    /\ calls' = [calls EXCEPT
                   ![c] = Catch(calls[c], AxiosError(NoResponse, FALSE, "Invalid URL"))]
    /\ cookieJar' = CatchJar(cookieJar, calls[c], AxiosError(NoResponse, FALSE, "Invalid URL"))
    /\ lastEvent' = [kind |-> "done", call |-> c]
    /\ UNCHANGED <<proxyVars, parseReqlineVars>>
    /\ UNCHANGED parserVars

\* a caller calls execute: lines 13-44, or 13-58 for a request without formData
Execute ==
  \E request \in ExecRequests :
    /\ proxyPc = "none"
    /\ servicePc = "none"
    /\ Len(calls) < CallsOf(request)
    /\ \A c \in 1..Len(calls) : calls[c].request \in CookieRequests
    /\ \E call \in {ExecuteStart(request, cookieJar, After)} :
         /\ calls' = Append(calls, call)
         /\ lastEvent' = Started(call, Len(calls) + 1)
    /\ UNCHANGED <<cookieJar, proxyVars, parseReqlineVars>>
    /\ UNCHANGED parserVars

\* the executor after its construction; no statement is being parsed
ExecInit ==
  /\ cookieJar = << >>
  /\ calls = <<>>
  /\ lastEvent = [kind |-> "none", call |-> 0]
  /\ proxyTarget = Undefined
  /\ proxyPc = "none"
  /\ originalUrl = Undefined
  /\ proxyOut = Undefined
  /\ servicePc = "none"
  /\ serviceOut = Undefined
  /\ reqline = <<>>
  /\ pc = "none"
  /\ parts = <<>>
  /\ i = 0
  /\ parsed = EmptyParsed
  /\ error = NoError

ExecNext ==
  \/ Execute
  \/ AttachFormData
  \/ AxiosResolves
  \/ AxiosRejectsWithResponse
  \/ AxiosNoResponse
  \/ AxiosSetupError

ExecSpec == ExecInit /\ [][ExecNext]_vars

(***************************************************************************)
(* proxyReqline (services/reqline/parser.js, lines 279-373).  A call runs  *)
(* its checks (ProxyValidate), calls parse (ParseStart, ParseLoop,         *)
(* ParseFinish), rewrites the URL and calls execute (ProxyForward), awaits *)
(* it, and returns (ProxyReturn) or maps the error (ProxyCatch).           *)
(***************************************************************************)
\* a value that is not a string: it is missing or a number
NotAString == {Null, Undefined, <<"number", "123">>}

\* String.prototype.startsWith
startsWith(t, prefix) == Len(t) >= Len(prefix) /\ SubSeq(t, 1, Len(prefix)) = prefix

\* the test of line 296: the target is refused
TargetRefused(target) ==
  /\ ~startsWith(target, <<"http:", "//", "localhost">>)
  /\ ~startsWith(target, <<"https:", "//", "localhost">>)

\* an error thrown by throwAppError: the message, the text interpolated into
\* it, the error code
AppError(message, text, code) == [message |-> message, text |-> text, code |-> code]

\* lines 310-311: proxyTarget + pathname + search of the original URL
ProxiedUrl(target, url) ==
  target \o URL(Spell(url)).pathname \o URL(Spell(url)).search

\* lines 287-301: the checks before the try block
ProxyValidate ==
  /\ proxyPc = "called"
  /\ IF reqline \in NotAString \/ reqline = <<>>
     THEN /\ proxyPc' = "thrown"
          /\ proxyOut' = AppError("MISSING_OR_INVALID_REQLINE", <<>>, "BADREQUEST")
          /\ UNCHANGED pc
     ELSE IF proxyTarget \in NotAString \/ proxyTarget = <<>>
     THEN /\ proxyPc' = "thrown"
          /\ proxyOut' = AppError("Proxy target is required and must be a string", <<>>,
                                  "BADREQUEST")
          /\ UNCHANGED pc
     ELSE IF TargetRefused(proxyTarget)
     THEN /\ proxyPc' = "thrown"
          /\ proxyOut' = AppError("Proxy target must be a localhost URL (http://localhost or https://localhost, with optional port)",
                                  <<>>, "BADREQUEST")
          /\ UNCHANGED pc
     ELSE /\ proxyPc' = "parsing"
          /\ pc' = "start"
          /\ UNCHANGED proxyOut
  /\ UNCHANGED <<reqline, parts, i, parsed, error>>
  /\ UNCHANGED <<cookieJar, calls, lastEvent, proxyTarget, originalUrl, parseReqlineVars>>

\* the request execute is called with: the result of parse with its URL
\* replaced; the result of parse has no formData
ProxiedRequest ==
  Request(parsed.method, ProxiedUrl(proxyTarget, parsed.url), Object(parsed.headers),
          Object(parsed.query), Object(parsed.body), Undefined)

\* lines 305-314: parse returned, the URL is replaced and execute is called
ProxyForward ==
  \E call \in {ExecuteStart(ProxiedRequest, cookieJar, After)} :
    /\ proxyPc = "parsing"
    /\ pc = "returned"
    /\ originalUrl' = parsed.url
    /\ parsed' = [parsed EXCEPT !.url = call.request.url]
    /\ calls' = Append(calls, call)
    /\ lastEvent' = Started(call, Len(calls) + 1)
    /\ proxyPc' = "executing"
    /\ UNCHANGED <<reqline, pc, parts, i, error>>
    /\ UNCHANGED <<cookieJar, proxyTarget, proxyOut, parseReqlineVars>>

\* lines 317-323: execute returned
ProxyReturn ==
  /\ proxyPc = "executing"
  /\ calls[Len(calls)].pc = "returned"
  /\ proxyPc' = "returned"
  /\ proxyOut' = [request |-> calls[Len(calls)].result[2].request,
                  response |-> calls[Len(calls)].result[2].response,
                  proxy_info |-> [original_url |-> originalUrl,
                                  proxy_target |-> proxyTarget,
                                  proxied_url |-> parsed.url]]
  /\ UNCHANGED parserVars
  /\ UNCHANGED <<cookieJar, calls, lastEvent, proxyTarget, originalUrl, parseReqlineVars>>

\* error.message.includes(code), for the messages of the model
Includes(message, code) ==
  <<message, code>> \in { <<"connect ECONNREFUSED", "ECONNREFUSED">>,
                          <<"getaddrinfo ENOTFOUND", "ENOTFOUND">>,
                          <<"connect ETIMEDOUT", "ETIMEDOUT">> }

\* the suggestion appended to the message of a ParserError
HelpSuffix == ". Check examples if you need help with the format"

\* error.message.includes('Check examples'): the words are in the message
\* itself or in the text of the statement that the message quotes
IncludesCheckExamples(e) ==
  \/ e.message = "Invalid reqline format. Expected at least HTTP and URL. Check examples if you need help with the format"
  \/ \E k \in 1..(Len(e.text) - 2) :
       e.text[k] = "Check" /\ e.text[k + 1] = " " /\ e.text[k + 2] = "examples"

\* lines 327-329 (and lines 24-26 of parse.js): the message of the error
\* thrown for a ParserError
ErrorMessage(e) ==
  IF IncludesCheckExamples(e)
  THEN [message |-> e.message, text |-> e.text]
  ELSE [message |-> e.message, text |-> e.text \o <<HelpSuffix>>]

\* lines 325-330: the error thrown for a ParserError
ParserAppError(e) == AppError(ErrorMessage(e).message, ErrorMessage(e).text, "BADREQUEST")

\* lines 333-369: the error thrown for an error of execute
ExecutorAppError(e, target) ==
  IF e.message = "No response received from server: "
  THEN AppError("Connection refused to ", target, "BADREQUEST")
  ELSE IF e.message = "Request setup error: "
  THEN IF Includes(e.cause, "ECONNREFUSED")
       THEN AppError("Connection refused to ", target, "BADREQUEST")
       ELSE IF Includes(e.cause, "ENOTFOUND")
       THEN AppError("Cannot resolve ", target, "BADREQUEST")
       ELSE IF Includes(e.cause, "ETIMEDOUT")
       THEN AppError("Request to ", target, "BADREQUEST")
       ELSE AppError("Request setup error: Request setup error: ", <<e.cause>>, "BADREQUEST")
  ELSE AppError("INTERNAL_SERVER_ERROR", <<>>, "INTERNALSERVERERROR")

\* lines 324-370: parse or execute threw
ProxyCatch ==
  /\ \/ /\ proxyPc = "parsing"
        /\ pc = "thrown"
        /\ proxyOut' = ParserAppError(error)
     \/ /\ proxyPc = "executing"
        /\ calls[Len(calls)].pc = "thrown"
        /\ proxyOut' = ExecutorAppError(calls[Len(calls)].error, proxyTarget)
  /\ proxyPc' = "thrown"
  /\ UNCHANGED parserVars
  /\ UNCHANGED <<cookieJar, calls, lastEvent, proxyTarget, originalUrl, parseReqlineVars>>

(***************************************************************************)
(* The calls of proxyReqline.                                              *)
(***************************************************************************)
TargetLocal == <<"http:", "//", "localhost">>

TargetPort == <<"http:", "//", "localhost", ":3000">>

TargetSecure == <<"https:", "//", "localhost", ":3000">>

TargetSlash == <<"http:", "//", "localhost", ":3000", "/">>

TargetSubdomain == <<"http:", "//", "localhost", ".example.com">>

TargetUserinfo == <<"http:", "//", "localhost", "@", "example.com">>

TargetBadPort == <<"http:", "//", "localhost", ":x">>

TargetRemote == <<"https:", "//", "example.com">>

ProxyTargets ==
  { TargetLocal, TargetPort, TargetSecure, TargetSlash, TargetSubdomain, TargetUserinfo,
    TargetBadPort, TargetRemote, <<>> } \cup NotAString

ProxyUrls ==
  { <<"https://example.com/x">>, <<"https://example.com">>, <<"https://example.com/x?a=1">>,
    <<"https://example.com/x", " ", "y">> }

ProxyStatements ==
  { Plain(<<Seg("HTTP", <<v>>), Seg("URL", u)>> \o tail) :
      v \in {"GET", "POST"}, u \in ProxyUrls,
      tail \in { <<>>, <<Seg("QUERY", JsonA2B1)>>, <<Seg("BODY", JsonA1)>> } }
  \cup { <<"INVALID", " ", "REQUEST">>, <<"HTTP", " ", "GET", " ", "|">>,
         SimpleStatement("PUT", UrlX), <<>>, Null }

\* a call of proxyReqline with a fresh executor
ProxyInit ==
  /\ reqline \in ProxyStatements
  /\ proxyTarget \in ProxyTargets
  /\ proxyPc = "called"
  /\ originalUrl = Undefined
  /\ proxyOut = Undefined
  /\ servicePc = "none"
  /\ serviceOut = Undefined
  /\ cookieJar = << >>
  /\ calls = <<>>
  /\ lastEvent = [kind |-> "none", call |-> 0]
  /\ pc = "none"
  /\ parts = <<>>
  /\ i = 0
  /\ parsed = EmptyParsed
  /\ error = NoError

ProxyNext ==
  \/ ProxyValidate
  \/ ParseStart
  \/ ParseLoop
  \/ ParseFinish
  \/ ProxyForward
  \/ AxiosResolves
  \/ AxiosRejectsWithResponse
  \/ AxiosNoResponse
  \/ AxiosSetupError
  \/ ProxyReturn
  \/ ProxyCatch

ProxySpec == ProxyInit /\ [][ProxyNext]_vars

(***************************************************************************)
(* parseReqline (services/reqline/parse.js).  A call runs its check        *)
(* (ServiceValidate), calls parse (ParseStart, ParseLoop, ParseFinish),    *)
(* calls execute (ServiceExecute), awaits it, and returns (ServiceReturn)  *)
(* or maps the error (ServiceCatch).                                       *)
(***************************************************************************)
\* lines 7-11
ServiceValidate ==
  /\ servicePc = "called"
  /\ IF reqline \in NotAString \/ reqline = <<>>
     THEN /\ servicePc' = "thrown"
          /\ serviceOut' = AppError("MISSING_OR_INVALID_REQLINE", <<>>, "BADREQUEST")
          /\ UNCHANGED pc
     ELSE /\ servicePc' = "parsing"
          /\ pc' = "start"
          /\ UNCHANGED serviceOut
  /\ UNCHANGED <<reqline, parts, i, parsed, error>>
  /\ UNCHANGED <<cookieJar, calls, lastEvent, proxyVars>>

\* the request execute is called with: the result of parse, which has no
\* formData
ParsedRequest ==
  Request(parsed.method, Spell(parsed.url), Object(parsed.headers), Object(parsed.query),
          Object(parsed.body), Undefined)

\* lines 15-18: parse returned and execute is called
ServiceExecute ==
  \E call \in {ExecuteStart(ParsedRequest, cookieJar, After)} :
    /\ servicePc = "parsing"
    /\ pc = "returned"
    /\ calls' = Append(calls, call)
    /\ lastEvent' = Started(call, Len(calls) + 1)
    /\ servicePc' = "executing"
    /\ UNCHANGED parserVars
    /\ UNCHANGED <<cookieJar, proxyVars, serviceOut>>

\* lines 18-20: execute returned
ServiceReturn ==
  /\ servicePc = "executing"
  /\ calls[Len(calls)].pc = "returned"
  /\ servicePc' = "returned"
  /\ serviceOut' = calls[Len(calls)].result
  /\ UNCHANGED parserVars
  /\ UNCHANGED <<cookieJar, calls, lastEvent, proxyVars>>

\* lines 21-32: parse or execute threw
ServiceCatch ==
  /\ \/ /\ servicePc = "parsing"
        /\ pc = "thrown"
        /\ serviceOut' = ParserAppError(error)
     \/ /\ servicePc = "executing"
        /\ calls[Len(calls)].pc = "thrown"
        /\ serviceOut' = AppError("INTERNAL_SERVER_ERROR", <<>>, "INTERNALSERVERERROR")
  /\ servicePc' = "thrown"
  /\ UNCHANGED parserVars
  /\ UNCHANGED <<cookieJar, calls, lastEvent, proxyVars>>

(***************************************************************************)
(* The calls of parseReqline.                                              *)
(***************************************************************************)
ServiceStatements ==
  { Plain(<<Seg("HTTP", <<v>>), Seg("URL", <<u>>)>> \o tail) :
      v \in {"GET", "POST"}, u \in AbsoluteUrls,
      tail \in { <<>>, <<Seg("QUERY", JsonA2B1)>>, <<Seg("BODY", JsonA1)>> } }
  \cup { Plain(<<Seg("HTTP", <<"GET">>), Seg("URL", u)>>) :
           u \in { <<"Check", " ", "examples">>, <<"not-a-url">>, <<"HTTP">> } }
  \cup { <<"INVALID", " ", "REQUEST">>, <<"HTTP", " ", "GET", " ", "|">>,
         <<"GET", " ", "|", " ", "URL", " ", UrlX>>,
         <<"URL", " ", UrlX, " ", "|", " ", "HTTP", " ", "GET">>,
         Plain(<<Seg("HTTP", <<"GET">>), Seg("URL", <<UrlX>>), Seg("HTTP", <<"POST">>)>>),
         Plain(<<Seg("HTTP", <<"GET">>), Seg("URL", <<UrlX>>), Seg("QUERY", <<"{", "1", "}">>)>>),
         SimpleStatement("PUT", UrlX), <<>> }
  \cup NotAString

\* a call of parseReqline with a fresh executor
ServiceInit ==
  /\ reqline \in ServiceStatements
  /\ servicePc = "called"
  /\ serviceOut = Undefined
  /\ proxyTarget = Undefined
  /\ proxyPc = "none"
  /\ originalUrl = Undefined
  /\ proxyOut = Undefined
  /\ cookieJar = << >>
  /\ calls = <<>>
  /\ lastEvent = [kind |-> "none", call |-> 0]
  /\ pc = "none"
  /\ parts = <<>>
  /\ i = 0
  /\ parsed = EmptyParsed
  /\ error = NoError

\* the URL of the request has been accepted by parse, so axios has no setup
\* error to report
ServiceNext ==
  \/ ServiceValidate
  \/ ParseStart
  \/ ParseLoop
  \/ ParseFinish
  \/ ServiceExecute
  \/ AxiosResolves
  \/ AxiosRejectsWithResponse
  \/ AxiosNoResponse
  \/ ServiceReturn
  \/ ServiceCatch

ServiceSpec == ServiceInit /\ [][ServiceNext]_vars

(***************************************************************************)
(* The statement as written, for the properties below: its segments (the   *)
(* text between consecutive pipes of the trimmed statement, the empty text *)
(* after a final pipe not counted), and the keyword token and value text   *)
(* of a segment.                                                           *)
(***************************************************************************)
PipePositions(t) == { k \in 1..Len(t) : t[k] = "|" }

RECURSIVE SegmentsFrom(_, _)
SegmentsFrom(t, from) ==
  LET later == { k \in PipePositions(t) : k >= from }
      next == CHOOSE k \in later : \A m \in later : k <= m
  IN  IF later = {}
      THEN IF Trim(SubSeq(t, from, Len(t))) = <<>> THEN <<>>
           ELSE <<Trim(SubSeq(t, from, Len(t)))>>
      ELSE <<Trim(SubSeq(t, from, next - 1))>> \o SegmentsFrom(t, next + 1)

Segments(statement) == SegmentsFrom(Trim(statement), 1)

FirstSpace(seg) ==
  IF \E k \in 1..Len(seg) : seg[k] = " "
  THEN CHOOSE k \in 1..Len(seg) : seg[k] = " " /\ \A m \in 1..(k - 1) : seg[m] # " "
  ELSE Len(seg) + 1

KeywordOf(seg) == SubSeq(seg, 1, FirstSpace(seg) - 1)

ValueOf(seg) == TrimLeft(SubSeq(seg, FirstSpace(seg) + 1, Len(seg)))

Finished == pc \in {"returned", "thrown"}

(***************************************************************************)
(* C1: for every statement `HTTP <V> | URL <U>` with V a supported verb    *)
(* and U an absolute URL, parse returns method = V, url = U as written,    *)
(* headers = {}, query = {}, body = {} and formData = null.                *)
(***************************************************************************)
C1_SimpleRequest ==
  \A v \in SupportedVerbs, u \in AbsoluteUrls :
    (reqline = SimpleStatement(v, u) /\ Finished) =>
      /\ pc = "returned"
      /\ parsed.method = <<v>>
      /\ parsed.url = <<u>>
      /\ parsed.headers = EmptyObject
      /\ parsed.query = EmptyObject
      /\ parsed.body = EmptyObject
      /\ "formData" \in DOMAIN parsed
      /\ parsed.formData = Null

(***************************************************************************)
(* C2: whenever parse returns a result, the statement has exactly one      *)
(* segment whose keyword is HTTP and exactly one whose keyword is URL, the *)
(* HTTP segment is segment 0 and the URL segment is segment 1.             *)
(***************************************************************************)
C2_MethodFirstUrlSecond ==
  pc = "returned" =>
    LET segs == Segments(reqline)
    IN  /\ Len(segs) >= 2
        /\ \A k \in 1..Len(segs) : KeywordOf(segs[k]) = <<"HTTP">> <=> k = 1
        /\ \A k \in 1..Len(segs) : KeywordOf(segs[k]) = <<"URL">> <=> k = 2

\* a result for a statement of three segments
C2_Witness ==
  /\ pc = "returned"
  /\ Len(Segments(reqline)) = 3
  /\ parsed.method = <<"GET">>
  /\ parsed.url = <<UrlX>>

(***************************************************************************)
(* C3: at the first pipe, from the left, with a character other than a     *)
(* space right before it or right after it, parse fails with 'Missing      *)
(* space before pipe delimiter' in the first case and otherwise with       *)
(* 'Missing space after pipe delimiter', whatever the segments contain.    *)
(***************************************************************************)
NoSpaceBefore(t, k) == k > 1 /\ t[k - 1] # " "

NoSpaceAfter(t, k) == k < Len(t) /\ t[k + 1] # " "

SpacingViolations(t) ==
  { k \in PipePositions(t) : NoSpaceBefore(t, k) \/ NoSpaceAfter(t, k) }

FirstViolation(t) ==
  CHOOSE k \in SpacingViolations(t) : \A m \in SpacingViolations(t) : k <= m

C3_SpacingErrorFirst ==
  LET t == Trim(reqline)
  IN  (pc # "start" /\ SpacingViolations(t) # {}) =>
        /\ pc = "thrown"
        /\ error.message = IF NoSpaceBefore(t, FirstViolation(t))
                           THEN "Missing space before pipe delimiter"
                           ELSE "Missing space after pipe delimiter"

\* the second pipe is the first one that violates spacing, only after it,
\* and the first segment has an unsupported verb
C3_Witness ==
  LET t == Trim(reqline)
  IN  /\ pc = "thrown"
      /\ error.message = "Missing space after pipe delimiter"
      /\ \E k \in PipePositions(t) : k < FirstViolation(t)
      /\ \E k \in 1..Len(t) : t[k] = "OPTIONS"

(***************************************************************************)
(* C4: parse returns a result only if every pipe of the trimmed statement  *)
(* has exactly one space before it and exactly one space after it.         *)
(***************************************************************************)
C4_ExactlyOneSpace ==
  pc = "returned" =>
    LET t == Trim(reqline)
    IN  \A k \in PipePositions(t) :
          /\ k > 1 /\ t[k - 1] = " "
          /\ k > 2 => t[k - 2] # " "
          /\ k < Len(t) /\ t[k + 1] = " "
          /\ k + 1 < Len(t) => t[k + 2] # " "

(***************************************************************************)
(* C5: `HTTP <V> | URL <valid url>` parses with method = V for V in GET,   *)
(* POST, PUT, DELETE, PATCH, and any other upper-case V fails with the     *)
(* invalid-method error naming these five verbs.                           *)
(***************************************************************************)
C5_FiveVerbs ==
  \A v \in SupportedVerbs \cup {"OPTIONS"}, u \in AbsoluteUrls :
    (reqline = SimpleStatement(v, u) /\ Finished) =>
      IF v \in SupportedVerbs
      THEN pc = "returned" /\ parsed.method = <<v>>
      ELSE /\ pc = "thrown"
           /\ error.message =
                "Invalid HTTP method. Only GET, POST, PUT, DELETE, and PATCH are supported"

(***************************************************************************)
(* C6: for a statement that passes segmentation with at least two          *)
(* segments, a first token of segment 0 that is, in any letter case, a     *)
(* supported verb fails with 'Missing required HTTP keyword'; any other    *)
(* first token that is not HTTP fails with 'HTTP keyword must be first'.   *)
(***************************************************************************)
C6_FirstToken ==
  LET segs == Segments(reqline)
      token == KeywordOf(segs[1])
  IN  (Finished /\ SpacingViolations(Trim(reqline)) = {} /\ Len(segs) >= 2 /\ token # <<>>) =>
        IF toUpperCase(token) \in { <<v>> : v \in SupportedVerbs }
        THEN pc = "thrown" /\ error.message = "Missing required HTTP keyword"
        ELSE token # <<"HTTP">> =>
               pc = "thrown" /\ error.message = "HTTP keyword must be first"

(***************************************************************************)
(* C7: for each of HEADERS, QUERY and BODY, the mapping of the result is   *)
(* the left-to-right shallow merge of the JSON objects of the segments     *)
(* with that keyword: it has every key of any of them, a key has the value *)
(* of the last segment that has it, and segments of the other keywords do  *)
(* not change it.                                                          *)
(***************************************************************************)
FieldOf(p, keyword) ==
  CASE keyword = "HEADERS" -> p.headers
    [] keyword = "QUERY" -> p.query
    [] keyword = "BODY" -> p.body

C7_ShallowMerge ==
  pc = "returned" =>
    \A keyword \in {"HEADERS", "QUERY", "BODY"} :
      LET segs == Segments(reqline)
          idx == { k \in 1..Len(segs) : KeywordOf(segs[k]) = <<keyword>> }
          json(k) == JSONparse(ValueOf(segs[k])).val
          has(k, key) == key \in DOMAIN json(k)[2]
          field == FieldOf(parsed, keyword)
      IN  (\A k \in idx : json(k)[1] = "object") =>
            /\ DOMAIN field = UNION { DOMAIN json(k)[2] : k \in idx }
            /\ \A key \in DOMAIN field :
                 \E k \in idx :
                   /\ has(k, key)
                   /\ \A m \in idx : has(m, key) => m <= k
                   /\ field[key] = json(k)[2][key]

(***************************************************************************)
(* C8: a HEADERS, QUERY or BODY value that is valid JSON but an array, a   *)
(* string, a number, a boolean or null fails with '<KEYWORD> value must be *)
(* a JSON object'; one that is not valid JSON fails with 'Invalid JSON     *)
(* format in <KEYWORD> section'.                                           *)
(***************************************************************************)
C8_ObjectOnly ==
  \A keyword \in {"HEADERS", "QUERY", "BODY"}, u \in AbsoluteUrls, j \in ValueTexts :
    (/\ reqline = Plain(<<Seg("HTTP", <<"POST">>), Seg("URL", <<u>>), Seg(keyword, j)>>)
     /\ Finished) =>
      IF ~JSONparse(j).ok
      THEN /\ pc = "thrown"
           /\ error.message = "Invalid JSON format in " \o keyword \o " section"
      ELSE JSONparse(j).val[1] # "object" =>
             /\ pc = "thrown"
             /\ error.message = keyword \o " value must be a JSON object"

(***************************************************************************)
(* C9: a statement with a BODY segment holding a non-empty object and a    *)
(* FORMDATA segment, in either order, fails with 'Cannot use both BODY and *)
(* FORMDATA in the same request'; no result has a non-empty body and a     *)
(* non-null formData.                                                      *)
(***************************************************************************)
C9_BodyFormDataExclusive ==
  /\ pc = "returned" =>
       ~(/\ parsed.body # EmptyObject
         /\ "formData" \in DOMAIN parsed
         /\ parsed.formData # Null)
  /\ \A u \in AbsoluteUrls, f \in {JsonField, JsonFile, JsonFileFull} :
       LET head == <<Seg("HTTP", <<"POST">>), Seg("URL", <<u>>)>>
           body == Seg("BODY", JsonA1)
           form == Seg("FORMDATA", f)
       IN  (Finished /\ reqline \in {Plain(head \o <<body, form>>),
                                     Plain(head \o <<form, body>>)}) =>
             /\ pc = "thrown"
             /\ error.message = "Cannot use both BODY and FORMDATA in the same request"

(***************************************************************************)
(* C10: for a FORMDATA segment, an entry whose value is an object with     *)
(* type "file" goes to formData.files under its key with its path, with    *)
(* filename defaulting to the key and contentType to                       *)
(* application/octet-stream; every other entry goes to formData.fields; a  *)
(* file entry without a path fails with 'File field "<key>" must have a    *)
(* "path" property'.                                                       *)
(***************************************************************************)
IsFileEntry(v) ==
  /\ v[1] = "object"
  /\ "type" \in DOMAIN v[2]
  /\ v[2]["type"] = <<"string", "file">>

FileRef(key, v) ==
  [path |-> v[2]["path"],
   filename |-> IF "filename" \in DOMAIN v[2] THEN v[2]["filename"] ELSE <<"string", key>>,
   contentType |-> IF "contentType" \in DOMAIN v[2] THEN v[2]["contentType"]
                   ELSE <<"string", "application/octet-stream">>]

Classified(obj) ==
  LET fileKeys == { k \in DOMAIN obj : IsFileEntry(obj[k]) }
  IN  [fields |-> [k \in (DOMAIN obj) \ fileKeys |-> obj[k]],
       files |-> [k \in fileKeys |-> FileRef(k, obj[k])]]

C10_FormDataClassified ==
  \A u \in AbsoluteUrls, f \in {JsonField, JsonFile, JsonFileFull, JsonFileNoPath} :
    (/\ reqline = Plain(<<Seg("HTTP", <<"POST">>), Seg("URL", <<u>>), Seg("FORMDATA", f)>>)
     /\ Finished) =>
      IF f = JsonFileNoPath
      THEN /\ pc = "thrown"
           /\ error.message = "File field \"<key>\" must have a \"path\" property"
           /\ error.text = <<"b">>
      ELSE /\ pc = "returned"
           /\ "formData" \in DOMAIN parsed
           /\ parsed.formData = Classified(JSONparse(f).val[2])

(***************************************************************************)
(* C11: whenever the server returns a response, execute returns a result   *)
(* whose response.http_status is the status received, for 4xx and 5xx as   *)
(* for 2xx, and does not fail; a call of execute that fails received no    *)
(* response.                                                               *)
(***************************************************************************)
C11_StatusIsData ==
  \A c \in 1..Len(calls) :
    /\ calls[c].response # NoResponse =>
         /\ calls[c].pc = "returned"
         /\ calls[c].error = NoExecError
         /\ calls[c].result # Undefined
         /\ calls[c].result[2].response.http_status = calls[c].response.status
    /\ calls[c].pc = "thrown" =>
         /\ calls[c].response = NoResponse
         /\ calls[c].result = Undefined

C11_Witness ==
  /\ \E c \in 1..Len(calls) :
       calls[c].pc = "returned" /\ calls[c].result[2].response.http_status = 404
  /\ \E c \in 1..Len(calls) :
       calls[c].pc = "returned" /\ calls[c].result[2].response.http_status = 500

(***************************************************************************)
(* The host name of the URL of a call, the directives of the response it   *)
(* received, and the text name=value of a well-formed directive.           *)
(***************************************************************************)
Hostname(url) == URL(url).hostname

Directives(call) ==
  IF call.response = NoResponse \/ SetCookieHeaders(call.response) = Undefined THEN <<>>
  ELSE SetCookieHeaders(call.response)

WellFormed(directive) ==
  LET nv == Split(Split(directive, ";")[1], "=")
  IN  Len(nv) >= 2 /\ Trim(nv[1]) # <<>> /\ Trim(nv[2]) # <<>>

NameValue(directive) == Trim(Split(directive, ";")[1])

InSeq(x, seq) == \E n \in 1..Len(seq) : seq[n] = x

\* call k started right after call j completed
NextAfter(j, k) == k \in 1..Len(calls) /\ j \in 1..Len(calls) /\ calls[k].after = j

\* the request of a call that got past the building of its URL carries the
\* cookie text in its Cookie header
SendsCookie(call, text) ==
  /\ "Cookie" \in DOMAIN call.config.headers
  /\ InSeq(text, Split(SelectSeq(call.config.headers["Cookie"], LAMBDA t : t # " "), ";"))

(***************************************************************************)
(* C12: after an execution against a URL with host name D whose response   *)
(* carries `Set-Cookie: s=1; Path=/`, the next execution against a URL     *)
(* with host name D sends the header Cookie: s=1 and reports it in         *)
(* request.cookies_sent; an execution against another host name sends only *)
(* cookies that responses from its own host name set; and a step that      *)
(* stores cookies for D leaves the bucket of every other host name         *)
(* unchanged.                                                              *)
(***************************************************************************)
C12_NextExecutionSends ==
  \A j, k \in 1..Len(calls) :
    /\ ( /\ NextAfter(j, k)
         /\ InSeq(SetS1, Directives(calls[j]))
         /\ Hostname(calls[k].request.url) = Hostname(calls[j].request.url) )
       => /\ SendsCookie(calls[k], <<"s", "=", "1">>)
          /\ calls[k].pc = "returned" =>
               /\ calls[k].result[2].request.cookies_sent # Undefined
               /\ InSeq(<<"s", "=", "1">>, calls[k].result[2].request.cookies_sent)
    /\ \A n \in 1..Len(calls[k].cookies) :
         \E m \in 1..Len(calls) :
           /\ Hostname(calls[m].request.url) = Hostname(calls[k].request.url)
           /\ \E d \in 1..Len(Directives(calls[m])) :
                NameValue(Directives(calls[m])[d]) = calls[k].cookies[n]

C12_OtherBucketsUnchanged ==
  \A c \in 1..Len(calls) :
    (calls[c].pc = "sent" /\ calls'[c].pc = "returned") =>
      \A d \in (DOMAIN cookieJar) \cup (DOMAIN cookieJar') :
        d # Hostname(calls[c].request.url) => Bucket(cookieJar', d) = Bucket(cookieJar, d)

C12_CookiesPerHostname == [](C12_NextExecutionSends) /\ [][C12_OtherBucketsUnchanged]_vars

(***************************************************************************)
(* C13: after every execution in which a response was received, whatever   *)
(* its status, each well-formed Set-Cookie directive of the response is in *)
(* the bucket of the host name of the request, and the next execution to   *)
(* that host name sends it.                                                *)
(***************************************************************************)
C13_StoredWhateverStatus ==
  \A j \in 1..Len(calls) :
    \A d \in 1..Len(Directives(calls[j])) :
      WellFormed(Directives(calls[j])[d]) =>
        /\ lastEvent = [kind |-> "done", call |-> j] =>
             InSeq(NameValue(Directives(calls[j])[d]),
                   getCookiesForDomain(cookieJar, Hostname(calls[j].request.url)))
        /\ \A k \in 1..Len(calls) :
             ( /\ NextAfter(j, k)
               /\ Hostname(calls[k].request.url) = Hostname(calls[j].request.url) )
             => SendsCookie(calls[k], NameValue(Directives(calls[j])[d]))

(***************************************************************************)
(* The calls whose request has been handed to axios, and the file entries  *)
(* of a request.                                                           *)
(***************************************************************************)
Dispatched(call) ==
  \/ call.pc \in {"sent", "returned"}
  \/ call.pc = "thrown" /\ call.error.name = "Error"

FileEntries(request) ==
  IF Falsy(request.formData) THEN EmptyObject ELSE request.formData[2].files

(***************************************************************************)
(* C14: a POST, PUT or PATCH request with a file entry whose path does not *)
(* exist makes execute fail with a message containing 'File not found:     *)
(* <path>', and one whose path is a directory with 'Path is not a file:    *)
(* <path>'; the failure is raised before any request is dispatched.        *)
(***************************************************************************)
C14_FileErrorsRaised ==
  \A c \in 1..Len(calls) :
    \A key \in DOMAIN FileEntries(calls[c].request) :
      LET path == FileEntries(calls[c].request)[key].path
      IN  (calls[c].request.method \in PayloadMethods /\ ~isFile(path)) =>
            /\ calls[c].config.data = <<"none">>
            /\ calls[c].response = NoResponse
            /\ calls[c].pc # "formdata" =>
                 /\ calls[c].pc = "thrown"
                 /\ calls[c].error.cause =
                      (IF existsSync(path) THEN "Path is not a file: " ELSE "File not found: ")
                      \o path

(***************************************************************************)
(* C15: every failure of execute is of one of two kinds, 'No response      *)
(* received from server: <cause>' for a dispatched call that got no        *)
(* response and 'Request setup error: <cause>' for a failure before the    *)
(* dispatch; no other error escapes execute.                               *)
(***************************************************************************)
C15_TwoFailureKinds ==
  \A c \in 1..Len(calls) :
    calls[c].pc = "thrown" =>
      /\ calls[c].error.message \in
           {"No response received from server: ", "Request setup error: "}
      /\ calls[c].error.message = "No response received from server: " =>
           calls[c].config.url # <<>>

(***************************************************************************)
(* C16: the outbound request carries a payload only if the method is POST, *)
(* PUT or PATCH; for GET and DELETE no payload is sent and no Content-Type *)
(* header is added, whatever body and formData are; for POST, PUT and      *)
(* PATCH a payload is sent exactly when body is non-empty or formData is   *)
(* present, and it is the multipart payload whenever formData is present.  *)
(***************************************************************************)
C16_PayloadByMethod ==
  \A c \in 1..Len(calls) :
    LET request == calls[c].request
        config == calls[c].config
        hasBody == DOMAIN request.body[2] # {}
        hasForm == ~Falsy(request.formData)
    IN  Dispatched(calls[c]) =>
          /\ config.data # <<"none">> => request.method \in PayloadMethods
          /\ request.method \in {<<"GET">>, <<"DELETE">>} =>
               /\ config.data = <<"none">>
               /\ \A name \in DOMAIN config.headers :
                    toLowerCase(<<name>>) = <<"content-type">> =>
                      name \in DOMAIN request.headers[2]
          /\ request.method \in PayloadMethods =>
               /\ config.data # <<"none">> <=> (hasBody \/ hasForm)
               /\ hasForm => config.data[1] = "form"
               /\ (hasBody /\ ~hasForm) => config.data = <<"json", request.body>>

C16_Witness ==
  /\ \E c \in 1..Len(calls) :
       /\ Dispatched(calls[c])
       /\ calls[c].request.method \in {<<"GET">>, <<"DELETE">>}
       /\ DOMAIN calls[c].request.body[2] # {}
       /\ ~Falsy(calls[c].request.formData)
       /\ calls[c].config.data = <<"none">>

C16_WitnessPrecedence ==
  \E c \in 1..Len(calls) :
    /\ Dispatched(calls[c])
    /\ calls[c].request.method = <<"PATCH">>
    /\ DOMAIN calls[c].request.body[2] # {}
    /\ calls[c].config.data[1] = "form"

(***************************************************************************)
(* C17: when formData is present and a multipart payload is sent, the      *)
(* headers of the outbound request contain no content-type header of the   *)
(* user, under any letter-casing of the header name.                       *)
(***************************************************************************)
C17_NoUserContentType ==
  \A c \in 1..Len(calls) :
    (Dispatched(calls[c]) /\ calls[c].config.data[1] = "form") =>
      \A name \in DOMAIN calls[c].config.headers :
        toLowerCase(<<name>>) # <<"content-type">>

(***************************************************************************)
(* C18: buildFullUrl returns the base URL unchanged when the query mapping *)
(* is null or empty; otherwise the pairs of the query string of the result *)
(* are the pairs of the base URL, unmodified and in their order, followed  *)
(* by one pair per entry of the mapping in the mapping's order, a key that *)
(* occurs in the base URL already giving a second pair.                    *)
(***************************************************************************)
MappingPairs(query) ==
  LET entries == ObjectEntries(query[2])
  IN  [n \in 1..Len(entries) |-> << <<entries[n][1]>>, <<entries[n][2][2]>> >>]

C18_QueryAppended ==
  \A c \in 1..Len(calls) :
    LET request == calls[c].request
    IN  IF Falsy(request.query) \/ DOMAIN request.query[2] = {}
        THEN calls[c].fullUrl = request.url
        ELSE URL(request.url).ok =>
               SearchPairs(URL(calls[c].fullUrl).search) =
                 SearchPairs(URL(request.url).search) \o MappingPairs(request.query)

C18_Witness ==
  \E c \in 1..Len(calls) :
    /\ calls[c].request.url = UrlQuery
    /\ calls[c].request.query = A2B1
    /\ SearchPairs(URL(calls[c].fullUrl).search) =
         << << <<"a">>, <<"1">> >>, << <<"a">>, <<"2">> >>, << <<"b">>, <<"1">> >> >>

\* a target whose host is exactly localhost, with an optional port
LocalhostTarget(target) ==
  /\ URL(target).ok
  /\ URL(target).hostname = "localhost"
  /\ URL(target).userinfo = <<>>

\* the call of proxyReqline got a statement and a target that are strings
ProxyInputsGiven ==
  /\ reqline \notin NotAString /\ reqline # <<>>
  /\ proxyTarget \notin NotAString /\ proxyTarget # <<>>

\* C19: proxyReqline rejects with 'Proxy target must be a localhost URL ...'
\* every target whose host is not exactly localhost with an optional port,
\* before anything is parsed or executed; so the host of every request that
\* proxyReqline dispatches is localhost.
C19_OnlyLocalhostTargets ==
  /\ (proxyPc \notin {"none", "called"} /\ ProxyInputsGiven /\ ~LocalhostTarget(proxyTarget))
       => /\ proxyPc = "thrown"
          /\ proxyOut.message = "Proxy target must be a localhost URL (http://localhost or https://localhost, with optional port)"
          /\ pc = "none"
          /\ calls = <<>>
  /\ proxyPc # "none" =>
       \A c \in 1..Len(calls) :
         Dispatched(calls[c]) => Hostname(calls[c].config.url) = "localhost"

\* the path and the query string of the URL t as they are written in it; a
\* URL without a path has the path "/"
PathAndQueryAsWritten(t) ==
  LET endAuth == FirstOf(t, 3, SlashTokens \cup {"?"})
  IN  IF endAuth > Len(t) THEN <<"/">>
      ELSE IF t[endAuth] = "?" THEN <<"/">> \o SubSeq(t, endAuth, Len(t))
      ELSE SubSeq(t, endAuth, Len(t))

\* C20: for a valid target T and a statement whose URL is U, the URL handed
\* to the executor is T followed by the path and the query string of U exactly
\* as written in U; scheme, host and port come from T only.
C20_PathAndQueryVerbatim ==
  (proxyPc # "none" /\ LocalhostTarget(proxyTarget) /\ calls # <<>>) =>
    /\ calls[1].request.url = proxyTarget \o PathAndQueryAsWritten(Spell(originalUrl))
    /\ URL(calls[1].request.url).protocol = URL(proxyTarget).protocol
    /\ URL(calls[1].request.url).host = URL(proxyTarget).host
    /\ URL(calls[1].request.url).port = URL(proxyTarget).port

\* the URL as it is written in the URL segment of the statement
UrlAsWritten == SubSeq(parts[2], 3, Len(parts[2]))

\* C21: the result of a successful proxied call carries proxy_info with
\* original_url the URL as written in the statement, proxy_target the target
\* as given and proxied_url the full URL actually requested: with a QUERY
\* segment proxied_url includes the query string built from the QUERY entries
\* and equals request.full_url.
C21_ProxyInfo ==
  proxyPc = "returned" =>
    /\ proxyOut.proxy_info.original_url = UrlAsWritten
    /\ proxyOut.proxy_info.proxy_target = proxyTarget
    /\ proxyOut.proxy_info.proxied_url = proxyOut.request.full_url
    /\ proxyOut.proxy_info.proxied_url = calls[1].config.url
    /\ DOMAIN proxyOut.request.query[2] # {} =>
         SearchPairs(URL(proxyOut.proxy_info.proxied_url).search) =
           SearchPairs(URL(Spell(UrlAsWritten)).search) \o MappingPairs(proxyOut.request.query)

\* the number of times the suggestion occurs in the message of a thrown error
HelpOccurrences(e) ==
  (IF e.message = "Invalid reqline format. Expected at least HTTP and URL. Check examples if you need help with the format"
   THEN 1 ELSE 0)
  + Cardinality({ k \in 1..Len(e.text) : e.text[k] = HelpSuffix })

\* C22: parseReqline maps every failure to one of three kinds: a missing,
\* non-string or empty reqline fails with BADREQUEST 'Missing or invalid
\* reqline statement' and neither the parser nor the executor is invoked; a
\* parser error fails with BADREQUEST carrying the parser's message, in which
\* 'Check examples if you need help with the format' occurs exactly once;
\* every other failure fails with INTERNALSERVERERROR carrying the generic
\* message only.
C22_ThreeKinds ==
  servicePc = "thrown" =>
    IF reqline \in NotAString \/ reqline = <<>>
    THEN /\ serviceOut = AppError("MISSING_OR_INVALID_REQLINE", <<>>, "BADREQUEST")
         /\ pc = "none"
         /\ calls = <<>>
    ELSE IF pc = "thrown"
    THEN /\ serviceOut.code = "BADREQUEST"
         /\ serviceOut.message = error.message
         /\ Len(serviceOut.text) >= Len(error.text)
         /\ SubSeq(serviceOut.text, 1, Len(error.text)) = error.text
         /\ HelpOccurrences(serviceOut) = 1
         /\ calls = <<>>
    ELSE /\ calls # <<>>
         /\ calls[Len(calls)].pc = "thrown"
         /\ serviceOut = AppError("INTERNAL_SERVER_ERROR", <<>>, "INTERNALSERVERERROR")

\* the message that names the kind of a transport failure
KindMessage(cause) ==
  CASE cause = "connect ECONNREFUSED" -> "Connection refused to "
    [] cause = "getaddrinfo ENOTFOUND" -> "Cannot resolve "
    [] cause = "timeout of 30000ms exceeded" -> "Request to "

\* C23: when the executor fails during a proxied call, the error raised by
\* proxyReqline keeps the kind of the transport failure: a refused connection
\* gives 'Connection refused to <target> ...', a DNS failure 'Cannot resolve
\* <target> ...', an expired timeout 'Request to <target> timed out ...'.
C23_FailureKindPreserved ==
  (/\ proxyPc = "thrown"
   /\ calls # <<>>
   /\ calls[Len(calls)].pc = "thrown"
   /\ calls[Len(calls)].error.cause \in TransportFailures)
    => /\ proxyOut.message = KindMessage(calls[Len(calls)].error.cause)
       /\ proxyOut.text = proxyTarget
       /\ proxyOut.code = "BADREQUEST"

\* the name of a Set-Cookie directive
DirectiveName(directive) == Trim(Split(Split(directive, ";")[1], "=")[1])

\* calls j and k ran concurrently: k was started right after j was, before
\* any call completed
Concurrent(j, k) ==
  /\ j \in 1..Len(calls) /\ k \in 1..Len(calls)
  /\ k = j + 1
  /\ ~(calls[j].pc = "thrown" /\ calls[j].error.name = "TypeError")
  /\ calls[k].after = 0

Completed(call) == call.pc \in {"returned", "thrown"}

\* once two concurrent executions against one host name have completed, the
\* bucket of the host name has every cookie name that either response set,
\* with the value of the response stored last
C24_BothStored ==
  \A j, k \in 1..Len(calls) :
    ( /\ Concurrent(j, k)
      /\ Hostname(calls[j].request.url) = Hostname(calls[k].request.url)
      /\ Completed(calls[j]) /\ Completed(calls[k]) )
    => LET bucket == Bucket(cookieJar, Hostname(calls[j].request.url))
       IN  \A c \in {j, k} : \A d \in 1..Len(Directives(calls[c])) :
             LET directive == Directives(calls[c])[d]
             IN  WellFormed(directive) =>
                   /\ \E n \in 1..Len(bucket) : bucket[n].name = DirectiveName(directive)
                   /\ ( /\ lastEvent = [kind |-> "done", call |-> c]
                        /\ \A e \in (d + 1)..Len(Directives(calls[c])) :
                             DirectiveName(Directives(calls[c])[e]) # DirectiveName(directive) )
                      => InSeq(NameValue(directive), getCookiesForDomain(cookieJar, Hostname(calls[j].request.url)))

\* a step keeps every cookie name of every bucket
C24_BucketKept ==
  \A d \in DOMAIN cookieJar :
    /\ d \in DOMAIN cookieJar'
    /\ \A n \in 1..Len(cookieJar[d]) :
         \E m \in 1..Len(cookieJar'[d]) : cookieJar'[d][m].name = cookieJar[d][n].name

\* C24: for two executions against the same host name that run concurrently,
\* in every interleaving of their starts and of the arrivals of their
\* responses, once both have completed the bucket of the host name has every
\* cookie name set by either response (for a name set by both, the value of
\* the response stored last) and every cookie that was in it before: no
\* stored cookie is lost.
C24_NoCookieLost == [](C24_BothStored) /\ [][C24_BucketKept]_vars

\* the names of the cookies of a bucket, in its order
Names(bucket) == [n \in 1..Len(bucket) |-> bucket[n].name]

\* the positions of the well-formed directives with a name among directives
Setting(directives, name) ==
  { e \in 1..Len(directives) :
      WellFormed(directives[e]) /\ DirectiveName(directives[e]) = name }

C25_OnePerName ==
  \A d \in DOMAIN cookieJar : \A m, n \in 1..Len(cookieJar[d]) :
    m # n => cookieJar[d][m].name # cookieJar[d][n].name

C25_UpsertInPlace ==
  /\ \A d \in DOMAIN cookieJar :
       /\ d \in DOMAIN cookieJar'
       /\ Len(cookieJar'[d]) >= Len(cookieJar[d])
       /\ SubSeq(Names(cookieJar'[d]), 1, Len(cookieJar[d])) = Names(cookieJar[d])
  /\ \A c \in 1..Len(calls) :
       (calls[c].pc = "sent" /\ calls'[c].pc = "returned" /\ Resolves(calls'[c].response)) =>
         LET old == Bucket(cookieJar, calls[c].domain)
             new == Bucket(cookieJar', calls[c].domain)
             directives == Directives(calls'[c])
         IN  /\ \A n \in 1..Len(old) :
                  Setting(directives, old[n].name) = {} => new[n] = old[n]
             /\ \A n \in 1..Len(new) :
                  Setting(directives, new[n].name) # {} =>
                    \E e \in Setting(directives, new[n].name) :
                      /\ \A f \in Setting(directives, new[n].name) : f <= e
                      /\ CookieText(new[n]) \o SubSeq(directives[e], Len(CookieText(new[n])) + 1, Len(directives[e]))
                           = TrimLeft(directives[e])
             /\ \A n \in (Len(old) + 1)..Len(new) :
                  /\ Setting(directives, new[n].name) # {}
                  /\ \A m \in (Len(old) + 1)..(n - 1) :
                       \E e \in Setting(directives, new[m].name) :
                         \A f \in Setting(directives, new[n].name) : e < f
             /\ \A e \in 1..Len(directives) :
                  WellFormed(directives[e]) =>
                    \E n \in 1..Len(new) : new[n].name = DirectiveName(directives[e])

\* C25: after any sequence of store operations a bucket holds at most one
\* cookie per name; a directive whose name is not yet in the bucket is
\* appended at the end, a directive whose name is present replaces that cookie
\* at its position without moving the others, and no store operation removes
\* a name from the bucket, whatever Expires or Max-Age the directive carries.
C25_BucketUpsert == [](C25_OnePerName) /\ [][C25_UpsertInPlace]_vars

\* a cookie s was replaced in place, before the cookie t, by a directive with
\* Max-Age=0
C25_Witness ==
  \E d \in DOMAIN cookieJar :
    /\ Len(cookieJar[d]) = 2
    /\ cookieJar[d][1].name = <<"s">>
    /\ cookieJar[d][1].value = <<"2">>
    /\ "maxAge" \in DOMAIN cookieJar[d][1].attributes
    /\ cookieJar[d][1].attributes["maxAge"] = <<"0">>
    /\ cookieJar[d][2].name = <<"t">>

\* the name/value pair of a directive: its text before the first ";"
Pair(directive) == Split(directive, ";")[1]

HasEquals(directive) == FirstOf(Pair(directive), 1, {"="}) <= Len(Pair(directive))

\* the text of a directive between its first "=" and its first ";", trimmed
ValueAsWritten(directive) ==
  Trim(SubSeq(Pair(directive), FirstOf(Pair(directive), 1, {"="}) + 1, Len(Pair(directive))))

\* C26: store parses each Set-Cookie directive as name=value followed by
\* ;-separated attributes: the stored value is the whole text between the
\* first "=" and the first ";", trimmed; a directive whose name/value pair has
\* no "=" is dropped without an error, and the other directives of the same
\* response are still stored.
C26_DirectiveParsing ==
  \A c \in 1..Len(calls) :
    (lastEvent = [kind |-> "done", call |-> c] /\ Resolves(calls[c].response)) =>
      LET directives == Directives(calls[c])
          bucket == Bucket(cookieJar, calls[c].domain)
      IN  /\ calls[c].pc = "returned"
          /\ \A e \in 1..Len(directives) :
               IF HasEquals(directives[e])
               THEN (\A f \in (e + 1)..Len(directives) :
                       HasEquals(directives[f]) =>
                         DirectiveName(directives[f]) # DirectiveName(directives[e]))
                    => \E n \in 1..Len(bucket) :
                         /\ bucket[n].name = DirectiveName(directives[e])
                         /\ bucket[n].value = ValueAsWritten(directives[e])
               ELSE \A n \in 1..Len(bucket) : bucket[n].name # Trim(Pair(directives[e]))

\* C27: each segment is split at its first run of spaces into a keyword and
\* a remainder, and the remainder is the value that is validated and stored,
\* character for character: a JSON string of a HEADERS, QUERY or BODY value
\* with two or more consecutive spaces is in the result with all its spaces.
C27_RemainderVerbatim ==
  pc = "returned" =>
    LET segs == Segments(reqline)
    IN  /\ parsed.method = ValueOf(segs[1])
        /\ parsed.url = ValueOf(segs[2])
        /\ \A k \in 3..Len(segs) : \A keyword \in {"HEADERS", "QUERY", "BODY"} :
             ( /\ KeywordOf(segs[k]) = <<keyword>>
               /\ JSONparse(ValueOf(segs[k])).val[1] = "object" )
             => \A key \in DOMAIN JSONparse(ValueOf(segs[k])).val[2] :
                  \/ \E m \in (k + 1)..Len(segs) : KeywordOf(segs[m]) = <<keyword>>
                  \/ /\ key \in DOMAIN FieldOf(parsed, keyword)
                     /\ FieldOf(parsed, keyword)[key] = JSONparse(ValueOf(segs[k])).val[2][key]

(***************************************************************************)
(* C28: when segment 0 is a valid HTTP segment, segment 1 a valid URL      *)
(* segment and every segment before segment k (k >= 2) is valid, a segment *)
(* k with the keyword HTTP makes parse fail with 'HTTP method can only     *)
(* appear once' and one with the keyword URL with 'URL can only appear     *)
(* once', whatever the value of segment k.  The loop reaches segment k     *)
(* only when the segments before it were accepted, and a throw leaves i at *)
(* the segment that failed.                                                *)
(***************************************************************************)
OnceMessage(keyword) ==
  IF keyword = <<"HTTP">> THEN "HTTP method can only appear once"
  ELSE "URL can only appear once"

\* segment k (k >= 2) is a keyword and a value, the keyword HTTP or URL
RepeatedAt(k) ==
  /\ k >= 2
  /\ k < Len(Segments(reqline))
  /\ KeywordOf(Segments(reqline)[k + 1]) \in {<<"HTTP">>, <<"URL">>}
  /\ ValueOf(Segments(reqline)[k + 1]) # <<>>

C28_OnceWhateverValue ==
  /\ pc = "returned" => \A k \in 0..Len(Segments(reqline)) : ~RepeatedAt(k)
  /\ ( /\ pc = "thrown"
       /\ parsed.method # Null
       /\ parsed.url # Null
       /\ RepeatedAt(i) )
     => error.message = OnceMessage(KeywordOf(Segments(reqline)[i + 1]))

(***************************************************************************)
(* C29: every '|' of the trimmed statement is a segment delimiter whatever *)
(* its context: the parts handed to keyword/value parsing are the texts    *)
(* between the pipes of the statement and none of them contains '|', so a  *)
(* statement with a '|' in its URL or in a JSON string literal fails or is *)
(* split there, and no returned value keeps the '|'.                       *)
(***************************************************************************)
HasPipe(t) == \E k \in 1..Len(t) : t[k] = "|"

\* the statement has a '|' in the value of its URL or in a string literal
PipeInValue ==
  \E k \in 2..(Len(reqline) - 1) :
    /\ reqline[k] = "|"
    /\ \/ \E m \in 1..(k - 1) : reqline[m] \in OpenAtoms /\ \A n \in m..k : reqline[n] \notin CloseAtoms
       \/ /\ \E m \in 1..(k - 1) : reqline[m] = UrlX /\ \A n \in (m + 1)..(k - 1) : reqline[n] = " "
          /\ \E m \in (k + 1)..Len(reqline) : reqline[m] = "y" /\ \A n \in (k + 1)..(m - 1) : reqline[n] = " "

C29_EveryPipeDelimits ==
  /\ parts # <<>> =>
       /\ parts = Segments(reqline)
       /\ \A k \in 1..Len(parts) : ~HasPipe(parts[k])
       /\ Len(parts) >= Cardinality(PipePositions(Trim(reqline)))
  /\ pc = "returned" => ~HasPipe(parsed.url) /\ ~PipeInValue

\* HTTP POST | URL https://example.com/x | BODY {"a": "x | y"} is split inside
\* the string literal and fails on the first half
C29_Witness ==
  /\ pc = "thrown"
  /\ reqline = Plain(<<Seg("HTTP", <<"POST">>), Seg("URL", <<UrlX>>), Seg("BODY", JsonPiped)>>)
  /\ PipeInValue
  /\ Len(parts) = 4
  /\ parts[3] = <<"BODY", " ", "{", "\"a\"", ":", " ", "\"x">>
  /\ parts[4] = <<"y\"", "}">>
  /\ i = 2
  /\ error.message = "Invalid JSON format in BODY section"

(***************************************************************************)
(* C30: an execution that fails with 'No response received from server' or *)
(* 'Request setup error' leaves the Cookie Jar as it was: the step in      *)
(* which the call fails creates, changes and removes no bucket, so an      *)
(* execution to any hostname would send the same cookies after it as       *)
(* before it; and an execution that only such failures precede sends no    *)
(* cookies, as if they had never run.                                      *)
(***************************************************************************)
FailureMessages == {"No response received from server: ", "Request setup error: "}

FailedWithoutResponse(call) ==
  call.pc = "thrown" /\ call.error.message \in FailureMessages

C30_JarKept ==
  \A c \in 1..Len(calls) :
    (~FailedWithoutResponse(calls[c]) /\ FailedWithoutResponse(calls'[c]))
    => /\ cookieJar' = cookieJar
       /\ \A host \in HostTokens \cup {"unknown"} :
            getCookiesForDomain(cookieJar', host) = getCookiesForDomain(cookieJar, host)

C30_NextSendsNone ==
  \A k \in 2..Len(calls) :
    (\A j \in 1..(k - 1) : FailedWithoutResponse(calls[j]))
    => /\ calls[k].cookies = <<>>
       /\ calls[k].pc # "thrown" => "Cookie" \notin DOMAIN calls[k].config.headers

C30_FailureKeepsJar == [](C30_NextSendsNone) /\ [][C30_JarKept]_vars

\* the first call stored s=1 and t=1 for example.com, the second one to the
\* same hostname sent them and got no response: the bucket is as it was
C30_Witness ==
  /\ Len(calls) = 2
  /\ calls[1].pc = "returned"
  /\ calls[1].response = Response(200, Entry("set-cookie", <<SetS1, SetBad, SetT1>>))
  /\ calls[2].after = 1
  /\ calls[2].domain = "example.com"
  /\ Len(calls[2].cookies) = 2
  /\ FailedWithoutResponse(calls[2])
  /\ calls[2].error.message = "No response received from server: "
  /\ getCookiesForDomain(cookieJar, "example.com") = calls[2].cookies

====
